---- MODULE Spec2Model ----
(***************************************************************************)
(* State-machine model of CaptchaKrakenSolver (src/src/solver.ts) and of   *)
(* the usage aggregation (src/src/token-usage.ts).                         *)
(*                                                                         *)
(* Conventions                                                             *)
(*  - Wall-clock time is the number of ticks elapsed since `start`         *)
(*    (Date.now() - start); it can only grow while the solver is suspended *)
(*    in an await, and it is not counted further once it is past the       *)
(*    budget (the deadline test cannot change any more).                   *)
(*  - Normalized coordinates (fractions in [0,1]) are written in units of  *)
(*    1/Scale; surface extents are multiples of 40 px so that every        *)
(*    product the code computes is an integer.                             *)
(*  - Money is counted in 1e-9 dollars (price per million tokens * 1000).  *)
(*  - A thrown Error is its message, modelled as the sequence of literal   *)
(*    and interpolated parts of the template string that builds it.        *)
(***************************************************************************)
EXTENDS Integers, Sequences, FiniteSets, TLC

\* ------------------------------------------------------------------ bounds
MaxCap == 3          \* largest configured maxSolveLoops explored
MaxBudget == 1       \* largest configured overallSolveTimeoutMs, in ticks
MaxLines == 2        \* lines in one decision-service output
MaxWaypoints == 1    \* waypoints in one generated trajectory
MaxElements == 2     \* elements of a document the Locator looks at
MaxTrace == 3        \* waypoints of a trajectory replayed on its own
MaxPace == 2         \* sampling periods one pointer-move can take
MaxUsages == 4       \* usage records in a list aggregated on its own
Scale == 4           \* normalized coordinates are multiples of 1/Scale

\* The values Math.random() takes, in units of 1/RandDen.
Draws == {0, 1}
RandDen == Cardinality(Draws)
\* Surface extents are multiples of Unit, which keeps the arithmetic integral.
Unit == 10 * Scale * RandDen

\* --------------------------------------------------------- program constants
DefaultViewportWidth == 1920
DefaultViewportHeight == 1080
DefaultSeedX == 100
DefaultSeedY == 100
CaptureFrames == 4
DefaultPostSolveDelayMs == 1200
SettleJitterMs == 300

Min(a, b) == IF a < b THEN a ELSE b
Max(a, b) == IF a > b THEN a ELSE b

\* ------------------------------------------------------------ token usage
\* A TokenUsage record; cached_input_tokens is optional.
Usage(m, i, o, hasC, c) ==
  [model |-> m, input_tokens |-> i, output_tokens |-> o,
   has_cached |-> hasC, cached_input_tokens |-> c]

UsageA == Usage("gemini-2.5-flash-lite", 100, 50, FALSE, 0)
UsageB == Usage("gemini-2.5-pro", 200, 25, TRUE, 40)
UsageC == Usage("some-other-model", 7, 3, TRUE, 0)

Price(i, o, c) == [inputPricePerM |-> i, outputPricePerM |-> o, cachedInputPricePerM |-> c]

KnownModels ==
  {"gemini-3-pro-preview", "gemini-3-flash-preview", "gemini-2.5-pro",
   "gemini-2.5-flash", "gemini-2.5-flash-preview", "gemini-2.5-flash-lite",
   "gemini-2.5-flash-lite-preview", "gemini-2.0-flash",
   "gemini-2.5-computer-use-preview-10-2025"}

PRICING(m) ==
  CASE m = "gemini-3-pro-preview" -> Price(2000, 12000, 200)
    [] m = "gemini-3-flash-preview" -> Price(500, 3000, 50)
    [] m = "gemini-2.5-pro" -> Price(1250, 10000, 125)
    [] m = "gemini-2.5-flash" -> Price(300, 2500, 30)
    [] m = "gemini-2.5-flash-preview" -> Price(300, 2500, 30)
    [] m = "gemini-2.5-flash-lite" -> Price(100, 400, 10)
    [] m = "gemini-2.5-flash-lite-preview" -> Price(100, 400, 10)
    [] m = "gemini-2.0-flash" -> Price(100, 400, 25)
    [] m = "gemini-2.5-computer-use-preview-10-2025" -> Price(1250, 10000, 25)

CachedOrZero(u) == IF u.has_cached THEN u.cached_input_tokens ELSE 0

estimateCost(u) ==
  LET pricing == IF u.model \in KnownModels THEN PRICING(u.model)
                 ELSE PRICING("gemini-2.5-flash")
  IN u.input_tokens * pricing.inputPricePerM
     + u.output_tokens * pricing.outputPricePerM
     + CachedOrZero(u) * pricing.cachedInputPricePerM

\* The accumulation loop of aggregateTokenUsage, from record i on.
RECURSIVE AggregateFrom(_, _, _)
AggregateFrom(usages, i, acc) ==
  IF i > Len(usages) THEN acc
  ELSE AggregateFrom(usages, i + 1,
         [acc EXCEPT !.inputTokens = @ + usages[i].input_tokens,
                     !.outputTokens = @ + usages[i].output_tokens,
                     !.cachedInputTokens = @ + CachedOrZero(usages[i]),
                     !.estimatedCost = @ + estimateCost(usages[i])])

\* An aggregate whose loop starts at the second record.
aggregateSkippingFirst(usages) ==
  IF Len(usages) = 0
  THEN [modelName |-> "none", inputTokens |-> 0, outputTokens |-> 0,
        cachedInputTokens |-> 0, estimatedCost |-> 0]
  ELSE AggregateFrom(usages, 2,
         [modelName |-> usages[1].model, inputTokens |-> 0, outputTokens |-> 0,
          cachedInputTokens |-> 0, estimatedCost |-> 0])

aggregateTokenUsage(usages) ==
  IF Len(usages) = 0
  THEN [modelName |-> "none", inputTokens |-> 0, outputTokens |-> 0,
        cachedInputTokens |-> 0, estimatedCost |-> 0]
  ELSE AggregateFrom(usages, 1,
         [modelName |-> usages[1].model, inputTokens |-> 0, outputTokens |-> 0,
          cachedInputTokens |-> 0, estimatedCost |-> 0])

\* JSON.stringify of the aggregate: the key/value pairs in insertion order.
Stringify(agg) ==
  << <<"modelName", agg.modelName>>, <<"inputTokens", agg.inputTokens>>,
     <<"outputTokens", agg.outputTokens>>,
     <<"cachedInputTokens", agg.cachedInputTokens>>,
     <<"estimatedCost", agg.estimatedCost>> >>

\* ------------------------------------------------------------ error messages
Txt(s) == [t |-> "txt", v |-> s]
Num(n) == [t |-> "num", v |-> n]
Json(j) == [t |-> "json", v |-> j]

TimeoutMessage(timeoutMs, attempt, maxLoops) ==
  << Txt("Captcha solve timed out after "), Num(timeoutMs), Txt("ms (attempt "),
     Num(attempt), Txt("/"), Num(maxLoops), Txt(").") >>

\* (mutant) the stall message without the usage.
StallMessageWithoutUsage(usages) ==
  << Txt("Captcha still detected but solver performed no interactions; aborting to avoid an infinite loop.") >>

StallMessage(usages) ==
  << Txt("Captcha still detected but solver performed no interactions; aborting to avoid an infinite loop. Total usage: "),
     Json(Stringify(aggregateTokenUsage(usages))) >>

\* (mutant) the exhaustion message citing the loop counter's final value.
ExhaustedMessageCitingCounter(maxLoops, usages) ==
  << Txt("Captcha still detected after "), Num(maxLoops + 1),
     Txt(" solve loops. Total usage: "),
     Json(Stringify(aggregateTokenUsage(usages))) >>

ExhaustedMessage(maxLoops, usages) ==
  << Txt("Captcha still detected after "), Num(maxLoops),
     Txt(" solve loops. Total usage: "),
     Json(Stringify(aggregateTokenUsage(usages))) >>

CliMissingMessage == << Txt("CaptchaKraken CLI folder not found at "), Txt("cliRoot") >>
EmptyOutputMessage == << Txt("CLI returned empty output. Stderr: "), Txt("stderr") >>
ProcessFailedMessage == << Txt("Command failed") >>
CliFailedMessage(inner) == << Txt("Failed to execute captcha solver CLI: ") >> \o inner
NoBoundingBoxMessage == << Txt("Could not get bounding box of captcha element") >>
MkdirFailedMessage == << Txt("EACCES: permission denied, mkdir "), Txt("debug_runs") >>
ScreenshotFailedMessage == << Txt("elementHandle.screenshot: failed") >>
PointerFailedMessage == << Txt("mouse: Target closed") >>
ProbeFailedMessage == << Txt("probe: element query or move failed") >>

\* ------------------------------------------------------------ action plans
NoTarget == << >>
ClickAction(tbb, tc) ==
  [action |-> "click", target_bounding_box |-> tbb, target_coordinates |-> tc,
   duration_ms |-> 0]
WaitAction(d) ==
  [action |-> "wait", target_bounding_box |-> NoTarget,
   target_coordinates |-> NoTarget, duration_ms |-> d]
\* An entry whose action is neither "click" nor "wait" (e.g. "done").
OtherAction ==
  [action |-> "done", target_bounding_box |-> NoTarget,
   target_coordinates |-> NoTarget, duration_ms |-> 0]

ClickPoint == ClickAction(NoTarget, <<2, 2>>)
ClickBox == ClickAction(<<1, 1, 3, 1>>, NoTarget)
ClickBare == ClickAction(NoTarget, NoTarget)
WaitPositive == WaitAction(1)
WaitZero == WaitAction(0)
WaitNegative == WaitAction(-1)

\* SolverResult: a list of entries, or one entry that is not wrapped in a list.
ActionArray(items) == [isArray |-> TRUE, items |-> items]
ActionSingle(e) == [isArray |-> FALSE, items |-> <<e>>]
\* Array.isArray(actions) ? actions : [actions]
actionList(actions) == actions.items

\* ------------------------------------------------- decision-service output
\* One line of stdout.  kind: "blank" (whitespace only), "log" (not JSON, or
\* JSON without the fields looked at), "payload" ({actions, token_usage}),
\* "list" (a bare JSON array), "entry" (a bare JSON object with an action).
Line(k, a, u) == [kind |-> k, actions |-> a, token_usage |-> u]
BlankLine == Line("blank", ActionArray(<< >>), << >>)
LogLine == Line("log", ActionArray(<< >>), << >>)
Lines ==
  { BlankLine, LogLine,
    Line("payload", ActionArray(<<ClickPoint>>), <<UsageA>>),
    Line("payload", ActionArray(<<WaitZero, OtherAction>>), <<UsageB, UsageC>>),
    Line("payload", ActionSingle(ClickBare), << >>),
    Line("list", ActionArray(<<WaitPositive, ClickBox>>), << >>),
    Line("list", ActionArray(<<WaitPositive, WaitPositive>>), << >>),
    Line("entry", ActionSingle(ClickBare), << >>),
    Line("entry", ActionSingle(WaitNegative), << >>) }

RECURSIVE SeqsUpTo(_, _)
SeqsUpTo(S, n) ==
  IF n = 0 THEN { << >> }
  ELSE LET shorter == SeqsUpTo(S, n - 1)
       IN shorter \cup { Append(q, e) : q \in { t \in shorter : Len(t) = n - 1 }, e \in S }

Stdouts == SeqsUpTo(Lines, MaxLines)

\* One run of the CLI: whether the CLI folder exists, whether the process
\* exited normally, and what it wrote.
Run(c, e, out) == [cliExists |-> c, exited |-> e, stdout |-> out]
Runs ==
  { Run(FALSE, FALSE, << >>), Run(TRUE, FALSE, << >>) }
    \cup { Run(TRUE, TRUE, out) : out \in Stdouts }

\* !stdout.trim()
TrimIsEmpty(stdout) == \A i \in 1..Len(stdout) : stdout[i].kind = "blank"

\* parsed.action && (parsed.target_bounding_box || parsed.target_coordinates
\*                   || parsed.action === 'wait')
IsLegacyEntry(e) ==
  \/ Len(e.target_bounding_box) > 0
  \/ Len(e.target_coordinates) > 0
  \/ e.action = "wait"

\* The loop over the lines, from line i on, with the plan kept so far.
RECURSIVE ParseLines(_, _, _)
\* (mutant) the loop goes on after a payload line.
ParseLinesWithoutBreak(lines, i, actions) ==
  IF i > Len(lines) THEN [actions |-> actions, token_usage |-> << >>]
  ELSE LET line == lines[i] IN
    CASE line.kind = "payload" ->
           LET rest == ParseLines(lines, i + 1, line.actions)
           IN [actions |-> rest.actions,
               token_usage |-> IF rest.token_usage = << >> THEN line.token_usage
                               ELSE rest.token_usage]
      [] line.kind = "list" -> ParseLines(lines, i + 1, line.actions)
      [] line.kind = "entry" /\ IsLegacyEntry(line.actions.items[1]) ->
           ParseLines(lines, i + 1, ActionArray(line.actions.items))
      [] OTHER -> ParseLines(lines, i + 1, actions)

ParseLines(lines, i, actions) ==
  IF i > Len(lines) THEN [actions |-> actions, token_usage |-> << >>]
  ELSE LET line == lines[i] IN
    CASE line.kind = "payload" ->
           [actions |-> line.actions, token_usage |-> line.token_usage]
      [] line.kind = "list" -> ParseLines(lines, i + 1, line.actions)
      [] line.kind = "entry" /\ IsLegacyEntry(line.actions.items[1]) ->
           ParseLines(lines, i + 1, ActionArray(line.actions.items))
      [] OTHER -> ParseLines(lines, i + 1, actions)

NoResponse == [actions |-> ActionArray(<< >>), token_usage |-> << >>]
Resolved(r) == [threw |-> FALSE, message |-> << >>, response |-> r]
Rejected(m) == [threw |-> TRUE, message |-> m, response |-> NoResponse]

getSolution(run) ==
  IF ~run.cliExists THEN Rejected(CliMissingMessage)
  ELSE IF ~run.exited THEN Rejected(CliFailedMessage(ProcessFailedMessage))
  ELSE IF TrimIsEmpty(run.stdout) THEN Rejected(CliFailedMessage(EmptyOutputMessage))
  ELSE Resolved(ParseLines(run.stdout, 1, ActionArray(<< >>)))

\* ------------------------------------------------------------ geometry
Point(px, py) == [x |-> px, y |-> py]
DefaultSeed == Point(DefaultSeedX, DefaultSeedY)
ConfiguredSeed == Point(5, 7)
DefaultViewport == [width |-> DefaultViewportWidth, height |-> DefaultViewportHeight]
SmallViewport == [width |-> 200, height |-> 150]
\* What tracePath ends up with after page.viewportSize() (null or a throw
\* leave the default).
Viewports == {DefaultViewport, SmallViewport}

NoBox == [x |-> 0, y |-> 0, width |-> 0, height |-> 0, isNull |-> TRUE]
SurfaceBox == [x |-> 200, y |-> 200, width |-> 4 * Unit, height |-> Unit, isNull |-> FALSE]
\* A waypoint outside every viewport.
Overshoot == Point(-30, 2000)

\* (mutant) a fraction of an extent, one pixel short.
ScaledShort(fraction, extent) == ((fraction * extent) \div Scale) - 1

\* executeClick, lines 661-664 and 681-682: a normalized coordinate times an
\* extent of the surface.
Scaled(fraction, extent) == (fraction * extent) \div Scale

\* (mutant) no padding.
NoPadding(extent) == 0

\* executeClick, lines 667-668: 10% of the extent of the pixel box.
Padding(extent) == extent \div 10

\* executeClick, lines 654-689: the absolute click point, or none.
\* rx, ry are the two Math.random() draws, in units of 1/RandDen.
ClickTarget(action, elementBox, rx, ry) ==
  IF Len(action.target_bounding_box) > 0
  THEN LET bb == action.target_bounding_box
           pixelMinX == Scaled(bb[1], elementBox.width)
           pixelMaxX == Scaled(bb[3], elementBox.width)
           pixelMinY == Scaled(bb[2], elementBox.height)
           pixelMaxY == Scaled(bb[4], elementBox.height)
           paddingX == Padding(pixelMaxX - pixelMinX)
           paddingY == Padding(pixelMaxY - pixelMinY)
           safeMinX == pixelMinX + paddingX
           safeMaxX == pixelMaxX - paddingX
           safeMinY == pixelMinY + paddingY
           safeMaxY == pixelMaxY - paddingY
           relativeX == safeMinX + (rx * (safeMaxX - safeMinX)) \div RandDen
           relativeY == safeMinY + (ry * (safeMaxY - safeMinY)) \div RandDen
       IN [none |-> FALSE, x |-> elementBox.x + relativeX, y |-> elementBox.y + relativeY]
  ELSE IF Len(action.target_coordinates) > 0
  THEN LET relativeX == Scaled(action.target_coordinates[1], elementBox.width)
           relativeY == Scaled(action.target_coordinates[2], elementBox.height)
       IN [none |-> FALSE, x |-> elementBox.x + relativeX, y |-> elementBox.y + relativeY]
  ELSE [none |-> TRUE, x |-> 0, y |-> 0]

\* move(), lines 556-568: a random point of the element, 25% inside it.
MoveTarget(box, rx, ry) ==
  LET padX == (box.width * 25) \div 100
      padY == (box.height * 25) \div 100
  IN Point(box.x + padX + (rx * (box.width - 2 * padX)) \div RandDen,
           box.y + padY + (ry * (box.height - 2 * padY)) \div RandDen)

\* generate_trajectory(from, to, 60): the external generator's waypoints; they
\* end at the destination, the points before it are arbitrary.
TrajectoriesOf(from, to, n) ==
  { Append(q, to) : q \in SeqsUpTo({from, Overshoot}, n - 1) }
Trajectories(from, to) == TrajectoriesOf(from, to, MaxWaypoints)

\* performSmoothMove, lines 591-597: the cumulative timings of n waypoints
\* sampled at a fixed rate, in sampling periods; the first is at the start
\* of the motion or one period into it.
Schedules(n) == { [k \in 1..n |-> k - 1 + first] : first \in {0, 1} }

\* (mutant) the sleep is the waypoint's timestamp, whatever time has passed.
PacingDelayPerWaypoint(timestamp, now) == timestamp

\* tracePath, lines 629-635: the sleep after a waypoint whose cumulative
\* timestamp is `timestamp`, `now` after the replay started (0: none).
PacingDelay(timestamp, now) ==
  LET delayMs == timestamp - now
  IN IF delayMs > 0 THEN delayMs ELSE 0

\* What page.mouse.move does at one waypoint: it succeeds, fails because the
\* page/session is closed, or fails otherwise.
MoveResults == {"ok", "closed", "error"}

\* (mutant) clamping from above only.
ClampAbove(v, viewport) ==
  Point(Min(v.x, viewport.width), Min(v.y, viewport.height))

\* tracePath, lines 618-619.
Clamp(v, viewport) ==
  Point(Max(0, Min(v.x, viewport.width)), Max(0, Min(v.y, viewport.height)))

\* tracePath, lines 613-645, from waypoint i on: the Pointer State it leaves.
RECURSIVE tracePath(_, _, _, _, _)
\* (mutant) any failed move ends the replay.
tracePathEndingAtFailure(last, vectors, results, viewport, i) ==
  IF i > Len(vectors) THEN last
  ELSE IF results[i] = "ok"
       THEN tracePath(Clamp(vectors[i], viewport), vectors, results, viewport, i + 1)
       ELSE last

tracePath(last, vectors, results, viewport, i) ==
  IF i > Len(vectors) THEN last
  ELSE CASE results[i] = "ok" ->
              tracePath(Clamp(vectors[i], viewport), vectors, results, viewport, i + 1)
         [] results[i] = "closed" -> last
         [] OTHER -> tracePath(last, vectors, results, viewport, i + 1)

\* (mutant) every trajectory is generated from the default seed.
performSmoothMoveFromSeed(last, to) ==
  UNION { { tracePath(DefaultSeed, vectors, results, viewport, 1) :
              results \in [1..Len(vectors) -> MoveResults],
              viewport \in Viewports } :
          vectors \in Trajectories(DefaultSeed, to) }

\* performSmoothMove: every Pointer State a move towards `to` can leave.
performSmoothMove(last, to) ==
  UNION { { tracePath(last, vectors, results, viewport, 1) :
              results \in [1..Len(vectors) -> MoveResults],
              viewport \in Viewports } :
          vectors \in Trajectories(last, to) }

\* ------------------------------------------------------------ the Locator
\* An element of the document, with what the selectors and the checks of
\* detectCaptcha look at.  kind: "recaptchaBframe" (iframe whose src holds
\* recaptcha/api2/bframe), "recaptchaAnchor" (src holds recaptcha/api2/anchor),
\* "hcaptcha" (iframe whose src holds hcaptcha.com), "cloudflareIframe" (src
\* holds challenges.cloudflare.com), "cfTurnstile" (class cf-turnstile).
\* frameChallenge: the src also holds frame=challenge; titleChallenge: the
\* title holds "challenge"; checkedMark: the .recaptcha-checkbox-checked
\* element inside the frame ("none", "hidden" or "visible").
Element(k, v, f, t, c) ==
  [kind |-> k, visible |-> v, frameChallenge |-> f, titleChallenge |-> t, checkedMark |-> c]

Elements ==
  UNION { { Element("recaptchaBframe", v, FALSE, FALSE, "none"),
            Element("cloudflareIframe", v, FALSE, FALSE, "none"),
            Element("cfTurnstile", v, FALSE, FALSE, "none") }
          \cup { Element("recaptchaAnchor", v, FALSE, FALSE, c) : c \in {"none", "hidden", "visible"} }
          \cup { Element("hcaptcha", v, f, t, "none") : f \in BOOLEAN, t \in BOOLEAN }
          : v \in BOOLEAN }

\* A hidden response field: there is none, reading it throws, or its value.
ResponseFields == {"missing", "unreadable", "", " ", "token"}

\* A document: its elements in document order and the two response fields.
Pages ==
  [elements : SeqsUpTo(Elements, MaxElements),
   hCaptchaResponse : ResponseFields,
   cfTurnstileResponse : ResponseFields]

\* The selectors of detectCaptcha, by the name of the local they fill.
Matches(rule, e) ==
  CASE rule = "recaptchaChallenge" -> e.kind = "recaptchaBframe"
    [] rule = "hcaptchaChallenge" -> e.kind = "hcaptcha" /\ e.frameChallenge
    [] rule = "hcaptchaChallengeTitle" -> e.kind = "hcaptcha" /\ e.titleChallenge
    [] rule = "recaptchaCheckbox" -> e.kind = "recaptchaAnchor"
    [] rule = "hcaptchaCheckbox" -> e.kind = "hcaptcha" /\ ~e.titleChallenge
    [] rule = "cloudflareIframe" -> e.kind = "cloudflareIframe"
    [] rule = "cloudflareContainer" -> e.kind = "cfTurnstile"

\* page.$(selector): the first matching element in document order (its
\* index), or null (0).
Query(page, rule) ==
  LET hits == { i \in 1..Len(page.elements) : Matches(rule, page.elements[i]) }
  IN IF hits = {} THEN 0 ELSE CHOOSE i \in hits : \A j \in hits : i <= j

\* el && await el.isVisible()
FoundVisible(page, i) == i # 0 /\ page.elements[i].visible

\* value.trim()
Trim(value) == IF value = " " THEN "" ELSE value

\* (mutant) a field counts as soon as it exists.
hasFieldValue(field) == field # "missing"

\* hasNonEmptyFieldValue, lines 298-310.
hasNonEmptyFieldValue(field) ==
  IF field \in {"missing", "unreadable"} THEN FALSE ELSE Trim(field) # ""

\* (mutant) the checked mark is not looked at.
anchorNeverChecked(e) == FALSE

\* isRecaptchaAnchorChecked, lines 312-321.
isRecaptchaAnchorChecked(e) == e.checkedMark = "visible"

NotFound == [rule |-> "null", element |-> 0]
Found(rule, i) == [rule |-> rule, element |-> i]

\* detectCaptcha, lines 323-371.
detectCaptcha(page) ==
  LET recaptchaChallenge == Query(page, "recaptchaChallenge")
      hcaptchaChallenge == Query(page, "hcaptchaChallenge")
      hcaptchaChallengeTitle == Query(page, "hcaptchaChallengeTitle")
      recaptchaCheckbox == Query(page, "recaptchaCheckbox")
      hcaptchaCheckbox == Query(page, "hcaptchaCheckbox")
      cloudflareIframe == Query(page, "cloudflareIframe")
      cloudflareContainer == Query(page, "cloudflareContainer")
  IN IF FoundVisible(page, recaptchaChallenge)
       THEN Found("recaptchaChallenge", recaptchaChallenge)
     ELSE IF FoundVisible(page, hcaptchaChallenge)
       THEN Found("hcaptchaChallenge", hcaptchaChallenge)
     ELSE IF FoundVisible(page, hcaptchaChallengeTitle)
       THEN Found("hcaptchaChallengeTitle", hcaptchaChallengeTitle)
     ELSE IF FoundVisible(page, recaptchaCheckbox)
             /\ ~isRecaptchaAnchorChecked(page.elements[recaptchaCheckbox])
       THEN Found("recaptchaCheckbox", recaptchaCheckbox)
     ELSE IF FoundVisible(page, hcaptchaCheckbox)
             /\ ~hasNonEmptyFieldValue(page.hCaptchaResponse)
       THEN Found("hcaptchaCheckbox", hcaptchaCheckbox)
     ELSE IF FoundVisible(page, cloudflareIframe)
             /\ ~hasNonEmptyFieldValue(page.cfTurnstileResponse)
       THEN Found("cloudflareIframe", cloudflareIframe)
     ELSE IF FoundVisible(page, cloudflareContainer)
             /\ ~hasNonEmptyFieldValue(page.cfTurnstileResponse)
       THEN Found("cloudflareContainer", cloudflareContainer)
     ELSE NotFound

\* ------------------------------------------------------------ the solver
\* What detectCaptcha can return: the element of the rule that matched.
NoSurface == "null"
Surfaces == {"recaptchaCheckbox", "cloudflareContainer"}
\* captchaElement.contentFrame() is null for an element that is not a frame.
HasContentFrame(surface) == surface # "cloudflareContainer"

\* The affordances the fallback probe looks for, in the order it tries them:
\* the four button texts, then the two provider-specific selectors.
ButtonTexts == <<"Verify", "Next", "Submit", "Skip">>
Affordances == ButtonTexts \o <<"#recaptcha-verify-button", ".button-submit">>
AffordanceBox == [x |-> 240, y |-> 400, width |-> 2 * Unit, height |-> Unit, isNull |-> FALSE]

VARIABLES
  maxSolveLoops,          \* config.maxSolveLoops
  overallSolveTimeoutMs,  \* config.overallSolveTimeoutMs, in ticks
  debugEnabled,           \* process.env.CAPTCHA_DEBUG === '1'
  lastMousePosition,      \* Pointer State
  pc,                     \* where the solve call is suspended
  attempt,                \* loop counter of solve
  elapsed,                \* Date.now() - start, in ticks
  cumulativeTokenUsage,   \* usage records pushed so far in this call
  captchaElement,         \* the surface the current iteration works on
  actions,                \* response.actions of the current iteration
  allTokenUsage,          \* response.token_usage of the current iteration
  elementBox,             \* bounding box used to translate coordinates
  entryIndex,             \* next entry of the plan / next affordance of the probe
  performedAction,        \* solveSingle's didInteract flag
  outcome,                \* how the last solve call ended
  hist,                   \* observations of the current solve call
  page,                   \* the document a detectCaptcha call looks at
  located,                \* what that detectCaptcha call returned
  translation,            \* one executeClick translation: its inputs and its point
  replay,                 \* one tracePath call: its waypoints and how far it got
  aggregation,            \* one aggregateTokenUsage call: its list and its result
  capture                 \* one iteration's artifacts: what exists, what was sent

vars ==
  << maxSolveLoops, overallSolveTimeoutMs, debugEnabled, lastMousePosition, pc, attempt,
     elapsed, cumulativeTokenUsage, captchaElement, actions, allTokenUsage,
     elementBox, entryIndex, performedAction, outcome, hist,
     page, located, translation, replay, aggregation, capture >>

\* The variables of the specifications that follow one component on its own.
components == << page, located, translation, replay, aggregation, capture >>

config == << maxSolveLoops, overallSolveTimeoutMs, debugEnabled >>
iteration == << captchaElement, actions, allTokenUsage, elementBox, entryIndex, performedAction >>

NoAggregate == aggregateTokenUsage(<< >>)
Pending ==
  [kind |-> "pending", cause |-> "none", isSolved |-> FALSE,
   finalMousePosition |-> DefaultSeed, tokenUsage |-> NoAggregate, message |-> << >>]
\* (mutant) a result that reports the default seed as the final position.
ReturnedAtSeed(position, usages) ==
  [kind |-> "returned", cause |-> "none", isSolved |-> TRUE,
   finalMousePosition |-> DefaultSeed, tokenUsage |-> aggregateTokenUsage(usages),
   message |-> << >>]

\* return { isSolved: true, finalMousePosition, tokenUsage }
Returned(position, usages) ==
  [kind |-> "returned", cause |-> "none", isSolved |-> TRUE,
   finalMousePosition |-> position, tokenUsage |-> aggregateTokenUsage(usages),
   message |-> << >>]
\* throw new Error(message), at the place named by cause
Thrown(cause, message) ==
  [kind |-> "thrown", cause |-> cause, isSolved |-> FALSE,
   finalMousePosition |-> DefaultSeed, tokenUsage |-> NoAggregate, message |-> message]

\* Observations of one solve call (they do not influence the solver).
NoHistory(later) ==
  [later |-> later,            \* this is not the first call on this solver
   scans |-> 0,                \* Locator invocations
   present |-> 0,              \* Locator invocations that found a surface
   rechecks |-> 0,             \* Locator invocations after a settling delay
   snapshots |-> 0,            \* screenshots taken
   dsCalls |-> 0,              \* decision-service calls
   dsUsage |-> << >>,          \* usage records they returned, in order
   dsFailure |-> "none",       \* how the last decision-service call failed
   completed |-> 0,            \* solveSingle calls that returned
   idle |-> 0,                 \* of these, with didInteract = false
   entries |-> 0,              \* plan entries executed in this iteration
   probes |-> 0,               \* fallback probes run in this iteration
   unslept |-> 0,              \* wait time the plan asks for and has not slept yet
   settling |-> 0,             \* the settling delay being slept, in 1/RandDen ms
   abandoned |-> FALSE,        \* a visible affordance of this probe was given up
   events |-> << >>,           \* pointer events and sleeps of the plan in execution
   top |-> NoSurface,          \* what the Locator just returned at the top of the iteration
   after |-> NoSurface,        \* what the re-check before this iteration returned
   pointerEvents |-> FALSE,    \* a move, press or release was issued
   boxLost |-> FALSE]          \* boundingBox() returned null after the plan arrived

SolverFields ==
  /\ maxSolveLoops \in 0..MaxCap
  /\ overallSolveTimeoutMs \in 0..MaxBudget
  /\ lastMousePosition \in {DefaultSeed, ConfiguredSeed}
  /\ pc = "idle"
  /\ attempt = 1
  /\ elapsed = 0
  /\ cumulativeTokenUsage = << >>
  /\ captchaElement = NoSurface
  /\ actions = ActionArray(<< >>)
  /\ allTokenUsage = << >>
  /\ elementBox = NoBox
  /\ entryIndex = 1
  /\ performedAction = FALSE
  /\ outcome = Pending
  /\ hist = NoHistory(FALSE)

\* A solver just constructed, CAPTCHA_DEBUG not set.
SolverInit ==
  /\ SolverFields
  /\ debugEnabled = FALSE

\* No component is followed on its own.
NoPage == [elements |-> << >>, hCaptchaResponse |-> "missing", cfTurnstileResponse |-> "missing"]
NotLocated == [rule |-> "pending", element |-> 0]
NoTranslation ==
  [action |-> ClickBare, elementBox |-> NoBox, rx |-> 0, ry |-> 0,
   state |-> "none", target |-> [none |-> TRUE, x |-> 0, y |-> 0]]
NoReplay ==
  [vectors |-> << >>, viewport |-> DefaultViewport, destination |-> DefaultSeed,
   i |-> 1, state |-> "none", issued |-> << >>, written |-> << >>, failed |-> FALSE,
   sawClosed |-> FALSE,
   timestamps |-> << >>, clock |-> 0, now |-> 0, slept |-> 0, paced |-> FALSE]

NoAggregation == [usages |-> << >>, state |-> "none", result |-> NoAggregate]
NoCapture ==
  [pc |-> "none", files |-> {}, created |-> {}, hasMovement |-> FALSE,
   inputPath |-> "none", check |-> "none", video |-> "none", sessionDebugDir |-> FALSE,
   saved |-> "none", archived |-> "none", sent |-> << >>, ended |-> "pending"]

Init ==
  /\ SolverInit
  /\ page = NoPage
  /\ located = NotLocated
  /\ translation = NoTranslation
  /\ replay = NoReplay
  /\ aggregation = NoAggregation
  /\ capture = NoCapture

\* The per-iteration locals go out of scope.
LeaveIteration ==
  /\ captchaElement' = NoSurface
  /\ actions' = ActionArray(<< >>)
  /\ allTokenUsage' = << >>
  /\ elementBox' = NoBox
  /\ entryIndex' = 1
  /\ performedAction' = FALSE

\* The solve call ends.
Finish(result) ==
  /\ pc' = "done"
  /\ outcome' = result
  /\ LeaveIteration

\* solve, lines 64-75: with CAPTCHA_DEBUG set the two mkdirSync calls make
\* the session's debug directory, or throw.
SessionDirOutcomes == IF debugEnabled THEN {"made", "failed"} ELSE {"none"}

\* (mutant) a new call puts the pointer back on the default seed.
StartSolveAtSeed ==
  /\ pc \in {"idle", "done"}
  /\ attempt' = 1
  /\ elapsed' = 0
  /\ cumulativeTokenUsage' = << >>
  /\ \E made \in SessionDirOutcomes :
       IF made = "failed"
       THEN pc' = "done" /\ outcome' = Thrown("debug", MkdirFailedMessage)
       ELSE pc' = "loop" /\ outcome' = Pending
  /\ hist' = NoHistory(pc = "done")
  /\ lastMousePosition' = DefaultSeed
  /\ UNCHANGED << components, config, iteration >>

\* solve, lines 55-75: a new call on the same solver (any number of them).
StartSolve ==
  /\ pc \in {"idle", "done"}
  /\ attempt' = 1
  /\ elapsed' = 0
  /\ cumulativeTokenUsage' = << >>
  /\ \E made \in SessionDirOutcomes :
       IF made = "failed"
       THEN pc' = "done" /\ outcome' = Thrown("debug", MkdirFailedMessage)
       ELSE pc' = "loop" /\ outcome' = Pending
  /\ hist' = NoHistory(pc = "done")
  /\ UNCHANGED << components, config, lastMousePosition, iteration >>

\* (mutants) the loop condition one iteration short, and one too many.
LoopContinuesOneShort == attempt < maxSolveLoops
LoopContinuesOneMore == attempt <= maxSolveLoops + 1

\* The loop condition of line 77.
LoopContinues == attempt <= maxSolveLoops
\* (mutant) the deadline test dropped.
DeadlineUnchecked == FALSE

\* The deadline test of line 78.
DeadlinePassed == elapsed > overallSolveTimeoutMs

\* solve, line 114: the loop ran out of iterations.
Exhausted ==
  /\ pc = "loop"
  /\ ~LoopContinues
  /\ Finish(Thrown("exhausted", ExhaustedMessage(maxSolveLoops, cumulativeTokenUsage)))
  /\ UNCHANGED << components, config, lastMousePosition, attempt, elapsed, cumulativeTokenUsage, hist >>

\* solve, lines 78-80.
TimedOut ==
  /\ pc = "loop"
  /\ LoopContinues
  /\ DeadlinePassed
  /\ Finish(Thrown("timeout", TimeoutMessage(overallSolveTimeoutMs, attempt, maxSolveLoops)))
  /\ UNCHANGED << components, config, lastMousePosition, attempt, elapsed, cumulativeTokenUsage, hist >>

\* (mutant) the surface of the re-check is kept for the next iteration.
SurfaceKept(found, previous) == IF previous = NoSurface THEN found ELSE previous

\* solve, lines 82 and 93: the surface solveSingle is given is the one the
\* scan of this iteration found, whatever the previous re-check returned.
SurfaceOfIteration(found, previous) == found

\* solve, lines 82-90: the scan at the top of an iteration.
Scan ==
  /\ pc = "loop"
  /\ LoopContinues
  /\ ~DeadlinePassed
  /\ \E found \in Surfaces \cup {NoSurface} :
       IF found = NoSurface
       THEN /\ Finish(Returned(lastMousePosition, cumulativeTokenUsage))
            /\ hist' = [hist EXCEPT !.scans = @ + 1, !.after = NoSurface]
       ELSE /\ pc' = "snapshot"
            /\ captchaElement' = SurfaceOfIteration(found, hist.after)
            /\ hist' = [hist EXCEPT !.scans = @ + 1, !.present = @ + 1, !.top = found]
            /\ UNCHANGED << actions, allTokenUsage, elementBox, entryIndex,
                            performedAction, outcome >>
  /\ UNCHANGED << components, config, lastMousePosition, attempt, elapsed, cumulativeTokenUsage >>

\* solveSingle, lines 118-142: the initial screenshot of captchaElement (a
\* failure propagates), then the movement check and the capture, whose
\* failures do not.
Snapshot ==
  /\ pc = "snapshot"
  /\ \E captured \in BOOLEAN :
       IF captured
       THEN /\ pc' = "decide"
            /\ UNCHANGED << iteration, outcome >>
       ELSE Finish(Thrown("snapshot", ScreenshotFailedMessage))
  /\ hist' = [hist EXCEPT !.snapshots = @ + 1, !.top = NoSurface, !.after = NoSurface]
  /\ UNCHANGED << components, config, lastMousePosition, attempt, elapsed, cumulativeTokenUsage >>

\* How the output of one run falls under the decision-service failures the
\* interface names: the process failed, the output is empty, or no line is a
\* payload ({actions, token_usage}, or one of the older bare forms).
OutputClass(run) ==
  IF ~run.cliExists \/ ~run.exited THEN "process"
  ELSE IF TrimIsEmpty(run.stdout) THEN "empty"
  ELSE IF \A i \in 1..Len(run.stdout) :
            LET line == run.stdout[i] IN
              /\ line.kind # "payload"
              /\ line.kind # "list"
              /\ ~(line.kind = "entry" /\ IsLegacyEntry(line.actions.items[1]))
       THEN "unparseable"
  ELSE "none"

\* (mutant) time passes, and the call is given up as soon as the budget is spent.
TickUnderWatchdog ==
  /\ pc \in {"snapshot", "decide", "execute", "probe", "settle"}
  /\ elapsed <= overallSolveTimeoutMs
  /\ elapsed' = elapsed + 1
  /\ IF elapsed' > overallSolveTimeoutMs
     THEN Finish(Thrown("timeout", TimeoutMessage(overallSolveTimeoutMs, attempt, maxSolveLoops)))
     ELSE UNCHANGED << pc, iteration, outcome >>
  /\ UNCHANGED << components, config, lastMousePosition, attempt, cumulativeTokenUsage, hist >>

\* Time passes while the call is suspended in an await of an iteration.
Tick ==
  /\ pc \in {"snapshot", "decide", "execute", "probe", "settle"}
  /\ elapsed <= overallSolveTimeoutMs
  /\ elapsed' = elapsed + 1
  /\ UNCHANGED << components, config, lastMousePosition, pc, attempt, cumulativeTokenUsage,
                  iteration, outcome, hist >>

\* What a decision-service call can come to: the class of its output and
\* what getSolution makes of it.
DecisionOutcomes ==
  { [class |-> OutputClass(run), got |-> getSolution(run)] : run \in Runs }

\* The wait time a plan asks for: the sum of its positive durations.
WaitTotal(list) ==
  LET sum[i \in 0..Len(list)] ==
        IF i = 0 THEN 0
        ELSE sum[i - 1] + (IF list[i].action = "wait" /\ list[i].duration_ms > 0
                           THEN list[i].duration_ms ELSE 0)
  IN sum[Len(list)]

\* (mutant) a missing bounding box is not noticed.
BoxMissingIgnored(box) == FALSE

\* solveSingle, line 158: if (!elementBox).
BoxMissing(box) == box.isNull

\* solveSingle, lines 144-162: the decision-service call, then the bounding box.
Decide ==
  /\ pc = "decide"
  /\ \E o \in DecisionOutcomes, box \in {NoBox, SurfaceBox} :
       LET called == [hist EXCEPT !.dsCalls = @ + 1, !.dsFailure = o.class]
           got == o.got
       IN IF got.threw
          THEN /\ Finish(Thrown("decision", got.message))
               /\ hist' = called
          ELSE /\ hist' = [called EXCEPT !.dsUsage = @ \o got.response.token_usage,
                                          !.unslept = WaitTotal(actionList(got.response.actions)),
                                          !.boxLost = box.isNull]
               /\ IF BoxMissing(box)
                  THEN Finish(Thrown("boundingBox", NoBoundingBoxMessage))
                  ELSE /\ actions' = got.response.actions
                       /\ allTokenUsage' = got.response.token_usage
                       /\ elementBox' = box
                       /\ entryIndex' = 1
                       /\ performedAction' = FALSE
                       /\ pc' = "execute"
                       /\ UNCHANGED << captchaElement, outcome >>
  /\ UNCHANGED << components, config, lastMousePosition, attempt, elapsed, cumulativeTokenUsage >>

\* The click points executeClick can choose for an entry (one per pair of
\* draws when the entry names a box).
ClickTargets(action, box) ==
  { ClickTarget(action, box, rx, ry) : rx \in Draws, ry \in Draws }

Event(i, kind) == [entry |-> i, kind |-> kind]

\* (mutant) the press is issued before the motion replay.
PressThenReplay(i) ==
  << Event(i, "down"), Event(i, "replay"), Event(i, "up"), Event(i, "sleep") >>

\* executeClick, lines 692-697, and solveSingle, line 167: the motion replay,
\* the press, the release (after the hold), then the pause between clicks.
ClickEvents(i) ==
  << Event(i, "replay"), Event(i, "down"), Event(i, "up"), Event(i, "sleep") >>

\* (mutant) a wait of one unit is taken for a no-op.
waitRequestedLong(action) == action.action = "wait" /\ action.duration_ms > 1

\* (mutant) the duration of a wait entry is not looked at.
waitRequestedAny(action) == action.action = "wait"

\* solveSingle, lines 170-171: a wait entry with a positive duration.
waitRequested(action) == action.action = "wait" /\ action.duration_ms > 0

\* solveSingle, lines 164-177: one entry of the plan (executeClick included).
ExecuteEntry ==
  /\ pc = "execute"
  /\ entryIndex <= Len(actionList(actions))
  /\ LET action == actionList(actions)[entryIndex]
         ran == [hist EXCEPT !.entries = @ + 1]
     IN CASE action.action = "click" ->
               \E target \in ClickTargets(action, elementBox) :
                   IF target.none
                   THEN /\ performedAction' = TRUE
                        /\ entryIndex' = entryIndex + 1
                        /\ hist' = [ran EXCEPT !.events = Append(@, Event(entryIndex, "sleep"))]
                        /\ UNCHANGED << lastMousePosition, elapsed, pc, outcome,
                                        captchaElement, actions, allTokenUsage, elementBox >>
                   ELSE \E position \in performSmoothMove(lastMousePosition, Point(target.x, target.y)),
                           pressed \in BOOLEAN :
                          /\ lastMousePosition' = position
                          /\ hist' = [ran EXCEPT !.pointerEvents = TRUE,
                                                 !.events = IF pressed
                                                            THEN @ \o ClickEvents(entryIndex)
                                                            ELSE << >>]
                          /\ UNCHANGED elapsed
                          /\ IF pressed
                             THEN /\ performedAction' = TRUE
                                  /\ entryIndex' = entryIndex + 1
                                  /\ UNCHANGED << pc, outcome, captchaElement, actions,
                                                  allTokenUsage, elementBox >>
                             ELSE Finish(Thrown("pointer", PointerFailedMessage))
          [] waitRequested(action) ->
               /\ elapsed' = Min(elapsed + action.duration_ms, overallSolveTimeoutMs + 1)
               /\ performedAction' = TRUE
               /\ entryIndex' = entryIndex + 1
               /\ hist' = [ran EXCEPT !.unslept = @ - action.duration_ms,
                                      !.events = Append(@, Event(entryIndex, "sleep"))]
               /\ UNCHANGED << lastMousePosition, pc, outcome, captchaElement, actions,
                               allTokenUsage, elementBox >>
          [] OTHER ->
               /\ entryIndex' = entryIndex + 1
               /\ hist' = ran
               /\ UNCHANGED << lastMousePosition, elapsed, performedAction, pc, outcome,
                               captchaElement, actions, allTokenUsage, elementBox >>
  /\ UNCHANGED << components, config, attempt, cumulativeTokenUsage >>

\* solve, line 57, with no postSolveDelayMs configured.
postSolveDelayMs == DefaultPostSolveDelayMs

\* (mutant) the settling delay is the jitter alone.
SettleJitter(base, draw) == draw * SettleJitterMs

\* solve, line 97: postSolveDelayMs + Math.random() * 300, in 1/RandDen ms.
SettleDelay(base, draw) == base * RandDen + draw * SettleJitterMs

\* The observations once solveSingle has returned and the settling delay
\* has been asked for.
Settling(observed) ==
  { [observed EXCEPT !.settling = SettleDelay(postSolveDelayMs, draw)] : draw \in Draws }

\* (mutant) the iteration's records replace those collected before.
PushReplacing(cumulative, tokenUsage) == tokenUsage

\* solve, line 94: cumulativeTokenUsage.push(...tokenUsage)
Push(cumulative, tokenUsage) == cumulative \o tokenUsage

\* solveSingle, lines 224-234, and solve, line 94: the call returns and its
\* usage records are pushed.
ReturnFromSolveSingle(didInteract) ==
  /\ pc' = "settle"
  /\ performedAction' = didInteract
  /\ cumulativeTokenUsage' = Push(cumulativeTokenUsage, allTokenUsage)
  /\ actions' = ActionArray(<< >>)
  /\ allTokenUsage' = << >>
  /\ elementBox' = NoBox
  /\ entryIndex' = 1
  /\ UNCHANGED << captchaElement, outcome >>

\* The plan is exhausted and an entry interacted: no probe.
PlanDone ==
  /\ pc = "execute"
  /\ entryIndex > Len(actionList(actions))
  /\ performedAction
  /\ ReturnFromSolveSingle(TRUE)
  /\ hist' \in Settling([hist EXCEPT !.completed = @ + 1, !.events = << >>])
  /\ UNCHANGED << components, config, lastMousePosition, attempt, elapsed >>

\* solveSingle, lines 179-183: nothing interacted, so the fallback probe
\* starts; without embedded content there is nothing to search.
FallbackProbe ==
  /\ pc = "execute"
  /\ entryIndex > Len(actionList(actions))
  /\ ~performedAction
  /\ IF HasContentFrame(captchaElement)
     THEN /\ pc' = "probe"
          /\ entryIndex' = 1
          /\ hist' = [hist EXCEPT !.probes = @ + 1, !.events = << >>]
          /\ UNCHANGED << cumulativeTokenUsage, captchaElement, actions, allTokenUsage,
                          elementBox, performedAction, outcome >>
     ELSE /\ ReturnFromSolveSingle(FALSE)
          /\ hist' \in Settling([hist EXCEPT !.probes = @ + 1, !.completed = @ + 1,
                                              !.idle = @ + 1, !.events = << >>])
  /\ UNCHANGED << components, config, lastMousePosition, attempt, elapsed >>

\* Every Pointer State a moveAndClick on an affordance can leave when it
\* gets as far as the replay (move, lines 538-571).
MovedTowardsAffordance(last) ==
  UNION { performSmoothMove(last, MoveTarget(AffordanceBox, rx, ry)) :
            rx \in Draws, ry \in Draws }

\* solveSingle, lines 184-221: the probe looks at affordance entryIndex.  It
\* is absent or hidden; or it is clicked; or the query, the move or the click
\* throws, which the text loop catches and the two selectors do not.  A
\* throw that comes after the pointer has moved comes from moveAndClick, so
\* the affordance had been found visible.
ProbeAffordance ==
  /\ pc = "probe"
  /\ entryIndex <= Len(Affordances)
  /\ \E result \in {"skip", "click", "throw"} :
       CASE result = "skip" ->
              /\ entryIndex' = entryIndex + 1
              /\ UNCHANGED << lastMousePosition, pc, cumulativeTokenUsage, captchaElement,
                              actions, allTokenUsage, elementBox, performedAction,
                              outcome, hist >>
         [] result = "click" ->
              \E position \in MovedTowardsAffordance(lastMousePosition) :
                /\ lastMousePosition' = position
                /\ ReturnFromSolveSingle(TRUE)
                /\ hist' \in Settling([hist EXCEPT !.completed = @ + 1,
                                                    !.pointerEvents = TRUE,
                                                    !.abandoned = FALSE])
         [] result = "throw" ->
              \E position \in MovedTowardsAffordance(lastMousePosition) \cup {lastMousePosition} :
                /\ lastMousePosition' = position
                /\ hist' = [hist EXCEPT
                              !.pointerEvents = @ \/ position # lastMousePosition,
                              !.abandoned = (entryIndex <= Len(ButtonTexts))
                                            /\ (@ \/ position # lastMousePosition)]
                /\ IF entryIndex <= Len(ButtonTexts)
                   THEN /\ entryIndex' = entryIndex + 1
                        /\ UNCHANGED << pc, cumulativeTokenUsage, captchaElement, actions,
                                        allTokenUsage, elementBox, performedAction, outcome >>
                   ELSE /\ Finish(Thrown("probe", ProbeFailedMessage))
                        /\ UNCHANGED cumulativeTokenUsage
  /\ UNCHANGED << components, config, attempt, elapsed >>

\* No affordance was clicked: solveSingle returns didInteract = false.
ProbeFoundNothing ==
  /\ pc = "probe"
  /\ entryIndex > Len(Affordances)
  /\ ReturnFromSolveSingle(FALSE)
  /\ hist' \in Settling([hist EXCEPT !.completed = @ + 1, !.idle = @ + 1,
                                      !.abandoned = FALSE])
  /\ UNCHANGED << components, config, lastMousePosition, attempt, elapsed >>

\* (mutant) the loop counter is not advanced.
SameAttempt(a) == a

\* solve, line 77: attempt++
NextAttempt(a) == a + 1

\* (mutant) the stall test dropped.
StalledNever == FALSE

\* (mutant) the stall test asks whether any iteration of the call interacted.
StalledOverCall == hist.idle = hist.completed

\* solve, line 109: if (!didInteract)
Stalled == ~performedAction

\* solve, lines 96-112: the settling delay, the re-check, and what follows.
Settle ==
  /\ pc = "settle"
  /\ \E after \in Surfaces \cup {NoSurface} :
       /\ hist' = [hist EXCEPT !.scans = @ + 1, !.rechecks = @ + 1, !.settling = 0,
                               !.present = IF after = NoSurface THEN @ ELSE @ + 1,
                               !.after = IF after # NoSurface /\ ~Stalled THEN after ELSE @,
                               !.entries = IF after # NoSurface /\ ~Stalled THEN 0 ELSE @,
                               !.probes = IF after # NoSurface /\ ~Stalled THEN 0 ELSE @]
       /\ IF after = NoSurface
          THEN /\ Finish(Returned(lastMousePosition, cumulativeTokenUsage))
               /\ UNCHANGED attempt
          ELSE IF Stalled
          THEN /\ Finish(Thrown("stall", StallMessage(cumulativeTokenUsage)))
               /\ UNCHANGED attempt
          ELSE /\ pc' = "loop"
               /\ attempt' = NextAttempt(attempt)
               /\ LeaveIteration
               /\ UNCHANGED outcome
  /\ UNCHANGED << components, config, lastMousePosition, elapsed, cumulativeTokenUsage >>

Next ==
  \/ StartSolve
  \/ Exhausted
  \/ TimedOut
  \/ Scan
  \/ Snapshot
  \/ Tick
  \/ Decide
  \/ ExecuteEntry
  \/ PlanDone
  \/ FallbackProbe
  \/ ProbeAffordance
  \/ ProbeFoundNothing
  \/ Settle

Spec == Init /\ [][Next]_vars

\* The same solver in a process started with CAPTCHA_DEBUG=1.
DebugInit ==
  /\ SolverFields
  /\ debugEnabled = TRUE
  /\ page = NoPage
  /\ located = NotLocated
  /\ translation = NoTranslation
  /\ replay = NoReplay
  /\ aggregation = NoAggregation
  /\ capture = NoCapture

DebugSpec == DebugInit /\ [][Next]_vars

\* The steps of a solve call that follow from an external call returning
\* (Locator query, snapshot, decision service, pointer primitive, sleep).
Progress ==
  \/ Exhausted
  \/ TimedOut
  \/ Scan
  \/ Snapshot
  \/ Decide
  \/ ExecuteEntry
  \/ PlanDone
  \/ FallbackProbe
  \/ ProbeAffordance
  \/ ProbeFoundNothing
  \/ Settle

\* Every external call returns: a call that can proceed does.
FairSpec == Spec /\ WF_vars(Progress)

\* ---------------------------------------------- the Locator on its own
\* The solver's own variables while a component is followed on its own.
solver ==
  << maxSolveLoops, overallSolveTimeoutMs, debugEnabled, pc, attempt, elapsed, cumulativeTokenUsage,
     captchaElement, actions, allTokenUsage, elementBox, entryIndex, performedAction,
     outcome, hist >>

SolverIdle ==
  /\ SolverInit
  /\ maxSolveLoops = 0
  /\ overallSolveTimeoutMs = 0

LocateInit ==
  /\ SolverIdle
  /\ lastMousePosition = DefaultSeed
  /\ page \in Pages
  /\ located = NotLocated
  /\ translation = NoTranslation
  /\ replay = NoReplay
  /\ aggregation = NoAggregation
  /\ capture = NoCapture

\* One call of detectCaptcha on the document.
Locate ==
  /\ located = NotLocated
  /\ page # NoPage
  /\ located' = detectCaptcha(page)
  /\ UNCHANGED << solver, lastMousePosition, page, translation, replay, aggregation, capture >>

\* The document changes between two calls (the page reacts, or is replaced).
Navigate ==
  /\ located # NotLocated
  /\ page' \in { [page EXCEPT !.elements = es] : es \in SeqsUpTo(Elements, 1) }
  /\ located' = NotLocated
  /\ UNCHANGED << solver, lastMousePosition, translation, replay, aggregation, capture >>

LocateNext == Locate \/ Navigate

LocateSpec == LocateInit /\ [][LocateNext]_vars

\* ------------------------------------- the coordinate translation on its own
\* Valid normalized boxes and points, in units of 1/Scale.
NormalizedBoxes ==
  { bb \in (0..Scale) \X (0..Scale) \X (0..Scale) \X (0..Scale) :
      bb[1] <= bb[3] /\ bb[2] <= bb[4] }
NormalizedPoints == { <<x, y>> : x \in 0..Scale, y \in 0..Scale }

TallBox == [x |-> 15, y |-> 0, width |-> Unit, height |-> 3 * Unit, isNull |-> FALSE]

\* The click entries and surface boxes executeClick is given.
Translations ==
  [action : { ClickAction(bb, NoTarget) : bb \in NormalizedBoxes }
              \cup { ClickAction(NoTarget, pt) : pt \in NormalizedPoints }
              \cup { ClickBare },
   elementBox : {SurfaceBox, TallBox},
   rx : {0}, ry : {0}, state : {"asked"}, target : {NoTranslation.target}]

TranslateInit ==
  /\ SolverIdle
  /\ lastMousePosition = DefaultSeed
  /\ page = NoPage
  /\ located = NotLocated
  /\ translation \in Translations
  /\ replay = NoReplay
  /\ aggregation = NoAggregation
  /\ capture = NoCapture

\* executeClick translates the entry (again), with two fresh random draws.
Translate ==
  /\ translation.state # "none"
  /\ \E rx \in Draws, ry \in Draws :
       translation' =
         [translation EXCEPT
            !.rx = rx, !.ry = ry, !.state = "answered",
            !.target = ClickTarget(translation.action, translation.elementBox, rx, ry)]
  /\ UNCHANGED << solver, lastMousePosition, page, located, replay, aggregation, capture >>

TranslateSpec == TranslateInit /\ [][Translate]_vars

\* ------------------------------------------------ the replay on its own
\* Where performSmoothMove is asked to go: inside and outside the viewports.
Destinations == {Point(120, 90), Point(2500, -5)}

ReplayInit ==
  /\ SolverIdle
  /\ lastMousePosition \in {DefaultSeed, ConfiguredSeed}
  /\ page = NoPage
  /\ located = NotLocated
  /\ translation = NoTranslation
  /\ aggregation = NoAggregation
  /\ capture = NoCapture
  /\ \E to \in Destinations, viewport \in Viewports :
       \E vectors \in TrajectoriesOf(lastMousePosition, to, MaxTrace) :
         \E timestamps \in Schedules(Len(vectors)) :
           replay = [NoReplay EXCEPT !.vectors = vectors, !.viewport = viewport,
                                     !.destination = to, !.state = "running",
                                     !.timestamps = timestamps]

\* (mutant) a closed page or session is passed over like any other failure.
TraceWaypointPastClosed ==
  /\ replay.state = "running"
  /\ LET clamped == Clamp(replay.vectors[replay.i], replay.viewport)
         after == IF replay.i = Len(replay.vectors) THEN "completed" ELSE "running"
         Unpaced(now) == [replay EXCEPT !.clock = now, !.now = now, !.slept = 0,
                                        !.paced = FALSE]
     IN \E result \in MoveResults, took \in 0..MaxPace :
          CASE result = "ok" ->
                 LET now == replay.clock + took
                     delayMs == PacingDelay(replay.timestamps[replay.i], now)
                 IN /\ lastMousePosition' = clamped
                    /\ replay' = [replay EXCEPT !.issued = <<clamped>>, !.written = <<clamped>>,
                                                !.i = @ + 1, !.state = after,
                                                !.now = now, !.slept = delayMs,
                                                !.paced = TRUE, !.clock = now + delayMs]
            [] OTHER ->
                 /\ replay' = [Unpaced(replay.clock + took)
                                  EXCEPT !.issued = <<clamped>>, !.failed = TRUE,
                                         !.i = @ + 1, !.state = after,
                                         !.sawClosed = @ \/ result = "closed"]
                 /\ UNCHANGED lastMousePosition
  /\ UNCHANGED << solver, page, located, translation, aggregation, capture >>

\* tracePath, lines 613-645: one pass of the loop over the waypoints.
TraceWaypoint ==
  /\ replay.state = "running"
  /\ LET clamped == Clamp(replay.vectors[replay.i], replay.viewport)
         after == IF replay.i = Len(replay.vectors) THEN "completed" ELSE "running"
         Unpaced(now) == [replay EXCEPT !.clock = now, !.now = now, !.slept = 0,
                                        !.paced = FALSE]
     IN \E result \in MoveResults, took \in 0..MaxPace :
          CASE result = "ok" ->
                 LET now == replay.clock + took
                     delayMs == PacingDelay(replay.timestamps[replay.i], now)
                 IN /\ lastMousePosition' = clamped
                    /\ replay' = [replay EXCEPT !.issued = <<clamped>>, !.written = <<clamped>>,
                                                !.i = @ + 1, !.state = after,
                                                !.now = now, !.slept = delayMs,
                                                !.paced = TRUE, !.clock = now + delayMs]
            [] result = "closed" ->
                 /\ replay' = [Unpaced(replay.clock + took)
                                  EXCEPT !.issued = <<clamped>>, !.state = "closed",
                                         !.sawClosed = TRUE]
                 /\ UNCHANGED lastMousePosition
            [] OTHER ->
                 /\ replay' = [Unpaced(replay.clock + took)
                                  EXCEPT !.issued = <<clamped>>, !.failed = TRUE,
                                         !.i = @ + 1, !.state = after]
                 /\ UNCHANGED lastMousePosition
  /\ UNCHANGED << solver, page, located, translation, aggregation, capture >>

ReplaySpec == ReplayInit /\ [][TraceWaypoint]_vars

\* ------------------------------------------- the usage aggregate on its own
\* The lists of usage records aggregateTokenUsage is given.
UsageLists == SeqsUpTo({UsageA, UsageB, UsageC}, MaxUsages)

AggregateInit ==
  /\ SolverIdle
  /\ lastMousePosition = DefaultSeed
  /\ page = NoPage
  /\ located = NotLocated
  /\ translation = NoTranslation
  /\ replay = NoReplay
  /\ aggregation \in [usages : UsageLists, state : {"asked"}, result : {NoAggregate}]
  /\ capture = NoCapture

\* One call of aggregateTokenUsage on the list.
Aggregate ==
  /\ aggregation.state = "asked"
  /\ aggregation' = [aggregation EXCEPT !.state = "answered",
                                        !.result = aggregateTokenUsage(aggregation.usages)]
  /\ UNCHANGED << solver, lastMousePosition, page, located, translation, replay, capture >>

AggregateSpec == AggregateInit /\ [][Aggregate]_vars

\* ------------------------------- the artifacts of one iteration on their own
\* The temporary artifacts of one iteration, all under os.tmpdir():
\* "initialScreenshot", "secondScreenshot", "framesDir" and "video".
\* (mutant) a check that could not be made counts as movement.
checkMovementAssumingMotion(second, run) ==
  [hasMovement |-> second = "failed" \/ run # "static",
   created |-> IF second = "taken" THEN {"secondScreenshot"} ELSE {},
   left |-> {}]

\* checkMovement, lines 237-261. `second`: the second screenshot was taken or
\* failed; `run`: what the check-movement subprocess did. What it returns,
\* the artifacts it created and those it leaves (finally, line 259).
checkMovement(second, run) ==
  [hasMovement |-> second = "taken" /\ run = "moving",
   created |-> IF second = "taken" THEN {"secondScreenshot"} ELSE {},
   left |-> {}]

\* captureVideo, lines 263-296. `dir`: mkdirSync made the frames directory;
\* `frames`: the frame screenshots that succeeded; `encoding`: ffmpeg wrote
\* the video, failed before opening its output, or failed after opening it.
\* The frames directory is removed in the finally, the output never is.
captureVideo(dir, frames, encoding) ==
  IF ~dir THEN [returned |-> FALSE, created |-> {}, left |-> {}]
  ELSE IF frames < CaptureFrames
       THEN [returned |-> FALSE, created |-> {"framesDir"}, left |-> {}]
  ELSE LET output == IF encoding = "failed" THEN {} ELSE {"video"}
       IN [returned |-> encoding = "encoded",
           created |-> {"framesDir"} \cup output, left |-> output]

\* saveImageForDebug, lines 373-405: nothing without CAPTCHA_DEBUG; a copy
\* that fails is logged.
saveImageForDebug(copy) == IF debugEnabled THEN copy ELSE "none"

\* archiveLatestDebugRun, lines 407-442: nothing without a session
\* directory; an archive that fails is logged.
archiveLatestDebugRun(sessionDebugDir, archive) ==
  IF sessionDebugDir THEN archive ELSE "none"

\* solveSingle, lines 224-232: the finally of the iteration.
Cleanup(files, inputPath) ==
  (files \ {"initialScreenshot"})
    \ (IF inputPath # "initialScreenshot" THEN {inputPath} ELSE {})

\* An iteration about to start; with CAPTCHA_DEBUG set solve has made the
\* session directory, without it one may be left from an earlier call.
CaptureInit ==
  /\ SolverFields
  /\ maxSolveLoops = 0
  /\ overallSolveTimeoutMs = 0
  /\ lastMousePosition = DefaultSeed
  /\ debugEnabled \in BOOLEAN
  /\ page = NoPage
  /\ located = NotLocated
  /\ translation = NoTranslation
  /\ replay = NoReplay
  /\ aggregation = NoAggregation
  /\ \E sessionDebugDir \in BOOLEAN :
       /\ debugEnabled => sessionDebugDir
       /\ capture = [NoCapture EXCEPT !.pc = "initial",
                                      !.sessionDebugDir = sessionDebugDir]

\* solveSingle, lines 119-123: the initial screenshot; a failure propagates.
InitialScreenshot ==
  /\ capture.pc = "initial"
  /\ \E taken \in BOOLEAN :
       capture' =
         IF taken
         THEN [capture EXCEPT !.pc = "movement", !.files = {"initialScreenshot"},
                              !.created = {"initialScreenshot"},
                              !.inputPath = "initialScreenshot"]
         ELSE [capture EXCEPT !.pc = "done", !.ended = "thrown"]
  /\ UNCHANGED << solver, lastMousePosition, page, located, translation, replay,
                  aggregation >>

\* solveSingle, line 126.
CheckMovement ==
  /\ capture.pc = "movement"
  /\ \E second \in {"taken", "failed"},
        run \in {"moving", "static", "error", "unparseable"} :
       LET check == checkMovement(second, run)
       IN capture' =
            [capture EXCEPT
               !.pc = "input", !.hasMovement = check.hasMovement,
               !.created = @ \cup check.created, !.files = @ \cup check.left,
               !.check = IF second = "failed" \/ run \in {"error", "unparseable"}
                         THEN "failed" ELSE run]
  /\ UNCHANGED << solver, lastMousePosition, page, located, translation, replay,
                  aggregation >>

\* solveSingle, lines 127-139: the capture if there is movement (a failure
\* is logged and the screenshot kept as input), then the debug copy.
PrepareInput ==
  /\ capture.pc = "input"
  /\ \E dir \in BOOLEAN, frames \in 0..CaptureFrames,
        encoding \in {"encoded", "failed", "failedOpen"},
        copy \in {"copied", "failed"} :
       LET made == IF capture.hasMovement
                   THEN captureVideo(dir, frames, encoding)
                   ELSE [returned |-> FALSE, created |-> {}, left |-> {}]
       IN capture' =
            [capture EXCEPT
               !.pc = "ask",
               !.inputPath = IF made.returned THEN "video" ELSE @,
               !.created = @ \cup made.created, !.files = @ \cup made.left,
               !.video = IF ~capture.hasMovement THEN "none"
                         ELSE IF made.returned THEN "captured" ELSE "failed",
               !.saved = saveImageForDebug(copy)]
  /\ UNCHANGED << solver, lastMousePosition, page, located, translation, replay,
                  aggregation >>

\* solveSingle, lines 143-234: the decision-service call on inputPath, the
\* archive, the bounding box and the plan, any of which may throw, and the
\* finally.
AskAndExecute ==
  /\ capture.pc = "ask"
  /\ \E run \in {"returned", "decision", "boundingBox", "pointer"},
        archive \in {"archived", "failed"} :
       capture' =
         [capture EXCEPT
            !.pc = "done",
            !.sent = Append(@, capture.inputPath),
            !.archived = IF run = "decision" THEN "none"
                         ELSE archiveLatestDebugRun(capture.sessionDebugDir, archive),
            !.ended = IF run = "returned" THEN "returned" ELSE "thrown",
            !.files = Cleanup(@, capture.inputPath)]
  /\ UNCHANGED << solver, lastMousePosition, page, located, translation, replay,
                  aggregation >>

CaptureSpec ==
  CaptureInit /\ [][InitialScreenshot \/ CheckMovement \/ PrepareInput \/ AskAndExecute]_vars

\* ================================================================ claims
Ended == pc = "done"
\* The places where an error of solveSingle propagates out of solve.
PropagatedCauses == {"decision", "snapshot", "boundingBox", "pointer", "probe"}
\* The Locator reported "present" on every invocation of this call.
AlwaysPresent == hist.present = hist.scans
\* Every solveSingle call that returned reported didInteract = true.
AlwaysInteracted == hist.idle = 0
\* The call ended without a timeout and without a propagated error.
EndedWithinBudget ==
  /\ Ended
  /\ outcome.cause \notin PropagatedCauses \cup {"timeout"}
\* The message holds the serialized aggregate of these usage records.
Embeds(message, usages) ==
  \E i \in 1..Len(message) :
    /\ message[i].t = "json"
    /\ message[i].v = Stringify(aggregateTokenUsage(usages))
\* The message holds "a/b".
CitesRatio(message, a, b) ==
  \E i \in 1..(Len(message) - 2) :
    /\ message[i].t = "num" /\ message[i].v = a
    /\ message[i + 1].t = "txt" /\ message[i + 1].v = "/"
    /\ message[i + 2].t = "num" /\ message[i + 2].v = b
\* The message holds "after n solve loops".
CitesLoops(message, n) ==
  \E i \in 1..(Len(message) - 2) :
    /\ message[i].t = "txt" /\ message[i].v = "Captcha still detected after "
    /\ message[i + 1].t = "num" /\ message[i + 1].v = n
    /\ message[i + 2].t = "txt" /\ message[i + 2].v = " solve loops. Total usage: "

\* C1 (as stated): when the Locator reports "present" on exactly k invocations
\* (k not above the cap) and every executed plan interacts, solve makes exactly
\* k decision-service calls and returns success.
C1_AsStated ==
  (EndedWithinBudget /\ AlwaysInteracted /\ hist.present <= maxSolveLoops)
    => /\ outcome.kind = "returned"
       /\ hist.dsCalls = hist.present
       /\ hist.completed = hist.present

\* C1 (amended): with a cap of at least 1 and k "present" reports (k not above
\* the cap), every executed plan interacting, solve makes exactly ceil(k/2)
\* decision-service calls and returns success: an iteration uses up two
\* Locator invocations, the scan and the settling re-check.
C1_CyclesAreHalfThePresentReports ==
  (EndedWithinBudget /\ AlwaysInteracted /\ maxSolveLoops >= 1
     /\ hist.present <= maxSolveLoops)
    => /\ outcome.kind = "returned"
       /\ outcome.isSolved
       /\ hist.dsCalls = (hist.present + 1) \div 2
       /\ hist.completed = (hist.present + 1) \div 2

C1_Witness ==
  /\ Ended /\ outcome.kind = "returned" /\ AlwaysInteracted
  /\ hist.present = 3 /\ hist.dsCalls = 2 /\ maxSolveLoops = 3

\* C2: when the Locator always reports "present" and plan execution reports
\* didInteract = false, solve fails with the stall failure after exactly one
\* decide/execute cycle and one settling re-check, whatever the cap (>= 1);
\* no second cycle starts and the cap is never reported as exhausted.
C2_StallAfterOneSettlingCheck ==
  (AlwaysPresent /\ hist.completed >= 1 /\ hist.idle = hist.completed)
    => /\ maxSolveLoops >= 1
       /\ hist.dsCalls = 1
       /\ hist.completed = 1
       /\ hist.rechecks <= 1
       /\ attempt = 1
       /\ (hist.rechecks = 1 => Ended /\ outcome.kind = "thrown" /\ outcome.cause = "stall")
       /\ (Ended => hist.rechecks = 1)

C2_Witness ==
  /\ Ended /\ outcome.cause = "stall" /\ AlwaysPresent
  /\ maxSolveLoops = 3 /\ hist.rechecks = 1 /\ hist.dsCalls = 1

\* C3 (as stated): with cap N, the Locator always "present" and every
\* iteration interacting, solve runs exactly N iterations and then fails with
\* a message citing "N/N".
C3_AsStated ==
  (EndedWithinBudget /\ AlwaysPresent /\ AlwaysInteracted)
    => /\ outcome.kind = "thrown"
       /\ hist.dsCalls = maxSolveLoops
       /\ hist.completed = maxSolveLoops
       /\ CitesRatio(outcome.message, maxSolveLoops, maxSolveLoops)

\* C3 (amended): with cap N, the Locator always "present" and every iteration
\* interacting, solve runs exactly N iterations and then fails with the
\* exhaustion message, which cites N as "after N solve loops" (not "N/N") and
\* embeds the aggregated usage.
C3_ExhaustsExactlyTheCap ==
  (EndedWithinBudget /\ AlwaysPresent /\ AlwaysInteracted)
    => /\ outcome.kind = "thrown"
       /\ outcome.cause = "exhausted"
       /\ hist.dsCalls = maxSolveLoops
       /\ hist.completed = maxSolveLoops
       /\ CitesLoops(outcome.message, maxSolveLoops)
       /\ ~CitesRatio(outcome.message, maxSolveLoops, maxSolveLoops)

C3_Witness ==
  /\ EndedWithinBudget /\ AlwaysPresent /\ AlwaysInteracted
  /\ maxSolveLoops = 3 /\ hist.completed = 3 /\ outcome.cause = "exhausted"

\* C4: when the first scan of a solve call finds no surface, solve returns
\* success with the zero aggregate and the Pointer State it was called with,
\* having taken no snapshot, made no decision-service call and issued no
\* pointer event.
C4_NothingToSolve ==
  [][ /\ (pc \in {"idle", "done"} /\ pc' = "loop")
          => lastMousePosition' = lastMousePosition
      /\ (pc = "loop" /\ hist.scans = 0 /\ hist'.scans = 1 /\ hist'.present = 0)
          => /\ pc' = "done"
             /\ outcome'.kind = "returned"
             /\ outcome'.isSolved
             /\ outcome'.tokenUsage =
                  [modelName |-> "none", inputTokens |-> 0, outputTokens |-> 0,
                   cachedInputTokens |-> 0, estimatedCost |-> 0]
             /\ outcome'.finalMousePosition = lastMousePosition
             /\ lastMousePosition' = lastMousePosition
             /\ hist'.snapshots = 0
             /\ hist'.dsCalls = 0
             /\ ~hist'.pointerEvents ]_vars

C4_Witness ==
  /\ Ended /\ outcome.kind = "returned" /\ hist.scans = 1 /\ hist.later
  /\ lastMousePosition \notin {DefaultSeed, ConfiguredSeed}
  /\ outcome.finalMousePosition = lastMousePosition

\* C5: every successful return carries the Pointer State at the moment of
\* return and the aggregate of the usage records of all decision-service
\* calls of that solve call, in iteration order.
C5_SuccessCarriesPointerAndUsage ==
  outcome.kind = "returned"
    => /\ outcome.isSolved
       /\ outcome.finalMousePosition = lastMousePosition
       /\ outcome.tokenUsage = aggregateTokenUsage(hist.dsUsage)

C5_Witness ==
  /\ outcome.kind = "returned" /\ hist.dsCalls = 2
  /\ hist.dsUsage = <<UsageB, UsageC, UsageA>>
  /\ outcome.tokenUsage.modelName = "gemini-2.5-pro"
  /\ outcome.tokenUsage.inputTokens = 307
  /\ lastMousePosition # DefaultSeed

\* C6: a failure by cap exhaustion or by the stall condition embeds the
\* serialized aggregate of the usage records of all decision-service calls of
\* the session, the failing iteration's included.
C6_CapAndStallFailuresCarryUsage ==
  outcome.cause \in {"exhausted", "stall"}
    => /\ outcome.kind = "thrown"
       /\ Embeds(outcome.message, hist.dsUsage)

C6_Witness ==
  /\ outcome.cause = "stall" /\ hist.dsCalls = 2
  /\ hist.dsUsage = <<UsageA, UsageB, UsageC>>
  /\ Embeds(outcome.message, <<UsageA, UsageB, UsageC>>)

\* C7: a failure by the wall-clock budget carries the aggregated usage of the
\* iterations completed so far.
C7_TimeoutCarriesUsage ==
  outcome.cause = "timeout" => Embeds(outcome.message, hist.dsUsage)

\* C8: when the decision-service call of iteration i fails, the failure
\* raised by solve carries the aggregated usage of iterations 1..i-1.
C8_DecisionFailureCarriesUsage ==
  outcome.cause = "decision" => Embeds(outcome.message, hist.dsUsage)

\* C9: every kind of decision-service failure (process failure, empty output,
\* output without a parseable payload) is fatal for the iteration: solve
\* raises, and no plan entry, fallback probe or settling re-check follows.
C9_EveryDecisionFailureIsFatal ==
  hist.dsFailure # "none"
    => /\ Ended
       /\ outcome.kind = "thrown"
       /\ hist.entries = 0
       /\ hist.probes = 0
       /\ hist.rechecks < hist.dsCalls

\* C10: the number of decide/execute iterations (decision-service calls) of
\* one solve call never exceeds maxSolveLoops.
C10_IterationsWithinCap ==
  /\ hist.dsCalls <= maxSolveLoops
  /\ hist.snapshots <= maxSolveLoops
  /\ hist.completed <= maxSolveLoops

C10_Witness ==
  /\ maxSolveLoops = 3 /\ hist.dsCalls = 3 /\ hist.completed = 3

\* C11: provided every external call returns, every solve call eventually
\* terminates, in exactly one of success, timeout failure, iteration-cap
\* failure, stall failure, or a propagated decision/execution error; it does
\* not loop on a persisting challenge: going round for a new iteration
\* advances the loop counter, which the cap bounds.
C11_EverySolveCallTerminates ==
  /\ [][(pc = "settle" /\ pc' = "loop")
         => attempt' = attempt + 1 /\ attempt' <= maxSolveLoops + 1]_vars
  /\ [](Ended =>
         \/ outcome.kind = "returned" /\ outcome.isSolved /\ outcome.cause = "none"
         \/ outcome.kind = "thrown" /\ ~outcome.isSolved
              /\ outcome.cause \in {"timeout", "exhausted", "stall"} \cup PropagatedCauses)
  /\ ((pc \notin {"idle", "done"}) ~> Ended)

C11_Witness ==
  /\ Ended /\ outcome.cause = "timeout" /\ hist.completed = 2
  /\ hist.present = hist.scans /\ maxSolveLoops = 3

\* The rules of the Locator in their fixed order.
Rules ==
  << "recaptchaChallenge", "hcaptchaChallenge", "hcaptchaChallengeTitle",
     "recaptchaCheckbox", "hcaptchaCheckbox", "cloudflareIframe", "cloudflareContainer" >>
OpenChallengeRules == {"recaptchaChallenge", "hcaptchaChallenge", "hcaptchaChallengeTitle"}
\* The field holds a non-empty token.
HoldsToken(field) == field \notin {"missing", "unreadable", "", " "}
\* The rule's surface counts as solved already.
Suppressed(rule, e) ==
  \/ rule = "recaptchaCheckbox" /\ e.checkedMark = "visible"
  \/ rule = "hcaptchaCheckbox" /\ HoldsToken(page.hCaptchaResponse)
  \/ rule \in {"cloudflareIframe", "cloudflareContainer"} /\ HoldsToken(page.cfTurnstileResponse)
\* Element i is a visible, unsuppressed match of the rule.
LiveMatch(rule, i) ==
  /\ Matches(rule, page.elements[i])
  /\ page.elements[i].visible
  /\ ~Suppressed(rule, page.elements[i])
HasLiveMatch(r) == \E i \in 1..Len(page.elements) : LiveMatch(Rules[r], i)
\* The element page.$ gives the rule is visible.
FirstMatchVisible(rule) == FoundVisible(page, Query(page, rule))
HasLocated == located # NotLocated

\* C12: locate returns the surface of the first rule, in the fixed order,
\* that has a visible and unsuppressed match, and none exactly when no rule
\* has one; a visible open challenge is returned in preference to any
\* checkbox or widget.
C12_FirstRuleWithVisibleMatch ==
  HasLocated =>
    /\ IF \E r \in 1..Len(Rules) : HasLiveMatch(r)
       THEN LET first == CHOOSE r \in 1..Len(Rules) :
                           HasLiveMatch(r) /\ \A q \in 1..(r - 1) : ~HasLiveMatch(q)
            IN /\ located.rule = Rules[first]
               /\ LiveMatch(Rules[first], located.element)
       ELSE located = NotFound
    /\ (\E i \in 1..Len(page.elements), rule \in OpenChallengeRules : LiveMatch(rule, i))
         => located.rule \in OpenChallengeRules

C14_TokenSuppressesSurface ==
  HasLocated =>
    /\ HoldsToken(page.hCaptchaResponse) => located.rule # "hcaptchaCheckbox"
    /\ HoldsToken(page.cfTurnstileResponse)
         => located.rule \notin {"cloudflareIframe", "cloudflareContainer"}
    /\ \A r \in 5..7 :
         (/\ FirstMatchVisible(Rules[r])
          /\ (IF r = 5 THEN page.hCaptchaResponse ELSE page.cfTurnstileResponse)
                \in {"missing", "unreadable", "", " "}
          /\ \A q \in 1..(r - 1) : located.rule # Rules[q])
           => located = Found(Rules[r], Query(page, Rules[r]))

C14_Witness ==
  /\ HasLocated
  /\ page.hCaptchaResponse = "token"
  /\ page.cfTurnstileResponse = "unreadable"
  /\ Len(page.elements) = 2
  /\ page.elements[1] = Element("hcaptcha", TRUE, FALSE, FALSE, "none")
  /\ located = Found("cloudflareContainer", 2)

\* The plan being executed has entries, all of them clicks that name neither
\* a box nor a point.
OnlyBareClicks ==
  /\ pc = "execute"
  /\ Len(actionList(actions)) >= 1
  /\ \A i \in 1..Len(actionList(actions)) :
       /\ actionList(actions)[i].action = "click"
       /\ actionList(actions)[i].target_bounding_box = NoTarget
       /\ actionList(actions)[i].target_coordinates = NoTarget

\* C15: a click entry with neither a box nor a point is a no-op that does not
\* count as an interaction: while a plan of only such entries is executed no
\* interaction is recorded and no pointer event is issued, so the fallback
\* probe decides didInteract.
C15_BareClickIsNoInteraction ==
  OnlyBareClicks => ~performedAction

\* The plan being executed has entries, all of them waits of positive duration.
OnlyPositiveWaits ==
  /\ pc = "execute"
  /\ Len(actionList(actions)) >= 1
  /\ \A i \in 1..Len(actionList(actions)) :
       /\ actionList(actions)[i].action = "wait"
       /\ actionList(actions)[i].duration_ms > 0

\* C16: a plan of only positive waits yields didInteract = true without the
\* fallback probe, and by the next Locator invocation (the settling re-check)
\* every duration the plan asked for has been slept.
C16_WaitsInteractAndAreSlept ==
  /\ [][ (OnlyPositiveWaits /\ pc' # "execute")
          => /\ pc' = "settle"
             /\ performedAction'
             /\ hist'.probes = 0
             /\ hist'.completed = hist.completed + 1
             /\ hist'.idle = hist.idle
             /\ hist.unslept = 0
             /\ hist'.unslept = 0 ]_vars
  /\ [][ (OnlyPositiveWaits /\ entryIndex' = entryIndex + 1)
          => /\ hist.unslept - hist'.unslept = actionList(actions)[entryIndex].duration_ms
             /\ elapsed' >= Min(elapsed + actionList(actions)[entryIndex].duration_ms,
                                overallSolveTimeoutMs + 1) ]_vars
  /\ [](pc = "settle" => hist.unslept = 0)

C16_Witness ==
  /\ pc = "settle" /\ performedAction /\ hist.probes = 0 /\ hist.entries = 2
  /\ hist.unslept = 0 /\ ~hist.pointerEvents /\ hist.dsCalls = 1 /\ ~hist.later
  /\ elapsed >= 1

Translated == translation.state = "answered"
\* The translated point relative to the origin of the surface.
RelX == translation.target.x - translation.elementBox.x
RelY == translation.target.y - translation.elementBox.y
\* a <= rel <= b for the padded pixel interval of one axis, all of it
\* multiplied by 10 * Scale: the pixel box is [lo*extent, hi*extent] / Scale
\* and shrinks by a tenth of its length on either side.
WithinPadded(rel, lo, hi, extent) ==
  /\ 10 * lo * extent + (hi - lo) * extent <= 10 * Scale * rel
  /\ 10 * Scale * rel <= 10 * hi * extent - (hi - lo) * extent

\* C17: for every surface box and valid normalized box the click point,
\* relative to the surface origin, lies in the pixel box shrunk by 10% of its
\* extent on each side; on a degenerate axis it is that single coordinate,
\* and a point is always produced.
C17_BoxPointWithinPaddedBox ==
  (Translated /\ translation.action.target_bounding_box # NoTarget)
    => LET bb == translation.action.target_bounding_box
           box == translation.elementBox
       IN /\ ~translation.target.none
          /\ WithinPadded(RelX, bb[1], bb[3], box.width)
          /\ WithinPadded(RelY, bb[2], bb[4], box.height)
          /\ bb[1] = bb[3] => Scale * RelX = bb[1] * box.width
          /\ bb[2] = bb[4] => Scale * RelY = bb[2] * box.height

C17_Witness ==
  /\ Translated
  /\ translation.action.target_bounding_box = <<0, 2, Scale, 2>>
  /\ translation.elementBox = SurfaceBox
  /\ translation.rx = 1
  /\ 10 * RelX > SurfaceBox.width
  /\ Scale * RelY = 2 * SurfaceBox.height

\* C18: for every surface box and valid normalized point (x, y) the click
\* target is exactly (origin.x + x*width, origin.y + y*height), whatever the
\* random draws: translating the same input again gives the same output.
C18_PointIsScaledExactly ==
  (/\ Translated
   /\ translation.action.target_bounding_box = NoTarget
   /\ translation.action.target_coordinates # NoTarget)
    => LET pt == translation.action.target_coordinates
           box == translation.elementBox
       IN /\ ~translation.target.none
          /\ Scale * RelX = pt[1] * box.width
          /\ Scale * RelY = pt[2] * box.height
          /\ \A rx \in Draws, ry \in Draws :
               ClickTarget(translation.action, box, rx, ry) = translation.target

C18_Witness ==
  /\ Translated
  /\ translation.action.target_coordinates = <<Scale, 1>>
  /\ translation.elementBox = TallBox
  /\ translation.rx = 1 /\ translation.ry = 1
  /\ translation.target = [none |-> FALSE, x |-> 15 + Unit, y |-> (3 * Unit) \div Scale]

InViewport(p, viewport) ==
  /\ 0 <= p.x /\ p.x <= viewport.width
  /\ 0 <= p.y /\ p.y <= viewport.height

\* C19: during a replay every pointer-move issued and every value written to
\* Pointer State lies within [0, width] x [0, height] of the viewport, also
\* when waypoints overshoot or the destination lies outside it.
C19_ReplayStaysInViewport ==
  /\ replay.issued # << >> => InViewport(replay.issued[1], replay.viewport)
  /\ replay.written # << >>
       => /\ InViewport(replay.written[1], replay.viewport)
          /\ lastMousePosition = replay.written[1]

C19_Witness ==
  /\ replay.state = "completed"
  /\ replay.viewport = SmallViewport
  /\ replay.vectors = <<Overshoot, Overshoot, Point(2500, -5)>>
  /\ ~replay.failed
  /\ lastMousePosition = Point(200, 0)

\* C20: after a replay that processed all its waypoints (not cut short by a
\* closed page or session), Pointer State equals the destination clamped
\* into the viewport.
C20_CompletedReplayEndsAtDestination ==
  replay.state = "completed"
    => lastMousePosition = Clamp(replay.destination, replay.viewport)


\* What one usage record contributes to a field of the aggregate.
PartOf(u, field) ==
  CASE field = "input" -> u.input_tokens
    [] field = "output" -> u.output_tokens
    [] field = "cached" -> IF u.has_cached THEN u.cached_input_tokens ELSE 0
    [] field = "cost" -> estimateCost(u)

\* The sum of the contributions of the records of a list to a field.
RECURSIVE SumOver(_, _)
SumOver(usages, field) ==
  IF usages = << >> THEN 0
  ELSE PartOf(Head(usages), field) + SumOver(Tail(usages), field)

Aggregated == aggregation.state = "answered"

\* C21: the aggregate of a list of usage records holds, field by field, the
\* sums of the records' input, output and cached counts (a missing cached
\* count is 0, the empty list gives zeros), its cost is the sum of the
\* records' own costs, and (100,50) with (200,25) gives 300 and 75.
C21_AggregateIsFieldwiseSum ==
  /\ Aggregated =>
       /\ aggregation.result.inputTokens = SumOver(aggregation.usages, "input")
       /\ aggregation.result.outputTokens = SumOver(aggregation.usages, "output")
       /\ aggregation.result.cachedInputTokens = SumOver(aggregation.usages, "cached")
       /\ aggregation.result.estimatedCost = SumOver(aggregation.usages, "cost")
  /\ Aggregated /\ aggregation.usages = << >> =>
       /\ aggregation.result.inputTokens = 0
       /\ aggregation.result.outputTokens = 0
       /\ aggregation.result.cachedInputTokens = 0
       /\ aggregation.result.estimatedCost = 0
  /\ Aggregated /\ aggregation.usages = <<UsageA, UsageB>> =>
       /\ aggregation.result.inputTokens = 300
       /\ aggregation.result.outputTokens = 75

\* A list with a record that has no cached count and one that has, aggregated.
C21_Witness ==
  /\ Aggregated
  /\ aggregation.usages = <<UsageA, UsageB>>
  /\ aggregation.result.inputTokens = 300
  /\ aggregation.result.cachedInputTokens = 40


NonPositiveWait(action) == action.action = "wait" /\ action.duration_ms <= 0
\* The plan in execution is not empty and holds nothing but such waits.
OnlyNonPositiveWaits ==
  /\ pc = "execute"
  /\ Len(actionList(actions)) > 0
  /\ \A i \in 1..Len(actionList(actions)) : NonPositiveWait(actionList(actions)[i])
PlanExhausted == pc = "execute" /\ entryIndex > Len(actionList(actions))

\* C22: a wait entry whose duration is not positive sleeps nothing and
\* leaves didInteract alone; a plan of such waits only ends with didInteract
\* false, so the fallback probe runs next, and when the probe has clicked
\* nothing and the re-check still finds the challenge, solve fails with
\* the stall failure.
C22_NonPositiveWaitIsNoInteraction ==
  /\ [][(/\ pc = "execute"
          /\ entryIndex <= Len(actionList(actions))
          /\ NonPositiveWait(actionList(actions)[entryIndex])
          /\ entryIndex' # entryIndex)
        => /\ elapsed' = elapsed
           /\ hist'.unslept = hist.unslept
           /\ performedAction' = performedAction
           /\ lastMousePosition' = lastMousePosition
           /\ pc' = "execute" /\ entryIndex' = entryIndex + 1]_vars
  /\ [][(/\ pc = "execute"
          /\ entryIndex <= Len(actionList(actions))
          /\ NonPositiveWait(actionList(actions)[entryIndex]))
        => performedAction' = performedAction /\ hist'.unslept = hist.unslept]_vars
  /\ [](OnlyNonPositiveWaits => ~performedAction)
  /\ [][OnlyNonPositiveWaits /\ PlanExhausted /\ pc' # pc
        => hist'.probes = hist.probes + 1 /\ pc' \in {"probe", "settle"}]_vars
  /\ [][(/\ pc = "settle" /\ hist.probes = 1 /\ ~performedAction
          /\ hist'.present = hist.present + 1)
        => pc' = "done" /\ outcome'.kind = "thrown" /\ outcome'.cause = "stall"]_vars

\* A one-entry plan whose entry neither clicked nor slept (the wait of -1)
\* was followed by a probe that clicked nothing, and the call stalled.
C22_Witness ==
  /\ pc = "done"
  /\ outcome.cause = "stall"
  /\ hist.dsCalls = 1
  /\ hist.entries = 1
  /\ hist.probes = 1
  /\ hist.idle = 1
  /\ ~hist.pointerEvents
  /\ elapsed = 0


\* solveSingle calls of this solve call that returned didInteract = true.
Interacted == hist.completed - hist.idle
StillPresentAfterSettling == pc = "settle" /\ hist'.present = hist.present + 1

\* C23: when the re-check of an iteration still finds the challenge, what
\* follows depends on that iteration's didInteract alone: without an
\* interaction solve fails with the stall failure in that same iteration,
\* however many earlier iterations interacted and however many iterations
\* the cap leaves; with one it goes on to the next iteration.
C23_StallLooksAtCurrentIterationOnly ==
  /\ [][StillPresentAfterSettling /\ ~performedAction
        => /\ pc' = "done"
           /\ outcome'.kind = "thrown"
           /\ outcome'.cause = "stall"
           /\ attempt' = attempt]_vars
  /\ [][StillPresentAfterSettling /\ performedAction
        => pc' = "loop" /\ outcome' = outcome]_vars
  /\ [](pc = "settle" => (performedAction <=> Interacted = attempt))
  /\ [](pc = "settle" => hist.completed = attempt)

\* Iteration 1 interacted, iteration 2 did not, a third was left under the
\* cap, and the call failed with the stall failure in iteration 2.
C23_Witness ==
  /\ pc = "done"
  /\ outcome.cause = "stall"
  /\ attempt = 2
  /\ maxSolveLoops = 3
  /\ hist.completed = 2
  /\ hist.idle = 1


\* The call is inside an iteration, past the checks at its top.
MidIteration == pc \in {"snapshot", "decide", "execute", "probe", "settle"}
LoopFailures == {"timeout", "exhausted"}

\* C24: the budget and the cap are looked at only at the top of an
\* iteration: inside an iteration no step raises the timeout (or the cap)
\* failure, the deadline having passed or not, and the passing of the
\* deadline takes no step of the iteration away.
C24_NoTimeoutInsideAnIteration ==
  /\ [][MidIteration => ~(pc' = "done" /\ outcome'.cause \in LoopFailures)]_vars
  /\ [][pc' = "done" /\ pc # "done" /\ outcome'.cause \in LoopFailures => pc = "loop"]_vars
  /\ [](MidIteration /\ DeadlinePassed => ENABLED <<Progress>>_vars)
  /\ [][MidIteration /\ DeadlinePassed /\ pc' = "loop" => pc = "settle"]_vars

\* The deadline passed inside iteration 1 and the iteration still ran
\* through its plan, its settling delay and its re-check.
C24_Witness ==
  /\ pc = "loop"
  /\ attempt = 2
  /\ DeadlinePassed
  /\ hist.rechecks = 1
  /\ hist.completed = 1
  /\ hist.pointerEvents


BudgetExceeded == elapsed > overallSolveTimeoutMs

\* C25: at the top of an iteration a budget already exceeded raises the
\* timeout failure before any Locator call (whatever the page holds by
\* then), while a settling re-check that finds no surface returns success
\* however much of the budget the iteration has used.
C25_DeadlineCheckPrecedesScan ==
  /\ [][pc = "loop" /\ attempt <= maxSolveLoops /\ BudgetExceeded
        => /\ pc' = "done"
           /\ outcome'.kind = "thrown"
           /\ outcome'.cause = "timeout"
           /\ hist'.scans = hist.scans]_vars
  /\ [][(/\ pc = "settle"
          /\ hist'.rechecks = hist.rechecks + 1
          /\ hist'.present = hist.present)
        => /\ pc' = "done"
           /\ outcome'.kind = "returned"
           /\ outcome'.isSolved]_vars

\* The budget was exceeded inside the first iteration, whose re-check found
\* no surface: the call returned success.
C25_Witness ==
  /\ pc = "done"
  /\ outcome.kind = "returned"
  /\ outcome.isSolved
  /\ BudgetExceeded
  /\ hist.scans = 2
  /\ hist.rechecks = 1
  /\ hist.present = 1


\* C26: in every iteration, with or without an interaction, the settling
\* delay slept after solveSingle returns is at least postSolveDelayMs and
\* less than postSolveDelayMs + 300 ms, and what follows it is decided by
\* exactly one Locator call: success, the stall failure or the next
\* iteration.
C26_SettlingDelayThenOneRecheck ==
  /\ [](pc = "settle" =>
         /\ hist.settling >= postSolveDelayMs * RandDen
         /\ hist.settling < (postSolveDelayMs + 300) * RandDen)
  /\ [][(pc \in {"execute", "probe"}) /\ (pc' \notin {"execute", "probe", "done"})
        => (pc' = "settle") /\ (hist'.settling >= postSolveDelayMs * RandDen)]_vars
  /\ [][pc = "settle" /\ pc' # "settle"
        => /\ hist'.scans = hist.scans + 1
           /\ hist'.rechecks = hist.rechecks + 1
           /\ \/ pc' = "done" /\ outcome'.kind = "returned"
              \/ pc' = "done" /\ outcome'.cause = "stall"
              \/ pc' = "loop" /\ attempt' = attempt + 1]_vars
  /\ [][(pc \notin {"settle", "idle", "done"}) /\ (pc' \in {"loop", "done"})
        => hist'.rechecks = hist.rechecks]_vars

\* A plan that interacted not at all is settled for 1200 ms + 150 ms.
C26_Witness ==
  /\ pc = "settle"
  /\ ~performedAction
  /\ hist.idle = 1
  /\ hist.settling = (DefaultPostSolveDelayMs + 150) * RandDen


InIteration == pc \in {"snapshot", "decide", "execute", "probe", "settle"}

\* C27: the surface an iteration takes its snapshot and its geometry of,
\* and probes, is the one the Locator returned at the top of that
\* iteration, whatever the previous re-check had returned; it stays the
\* same to the end of the iteration, and no surface is held between
\* iterations.
C27_SurfaceIsTheOneJustLocated ==
  /\ [](pc = "snapshot" => captchaElement = hist.top /\ captchaElement # NoSurface)
  /\ [][InIteration /\ InIteration' => captchaElement' = captchaElement]_vars
  /\ [](~InIteration => captchaElement = NoSurface)

\* The re-check of iteration 1 found the checkbox, the scan of iteration 2
\* found the container, and iteration 2 works on the container.
C27_Witness ==
  /\ pc = "snapshot"
  /\ attempt = 2
  /\ hist.after = "recaptchaCheckbox"
  /\ hist.top = "cloudflareContainer"
  /\ captchaElement = "cloudflareContainer"


\* The events of entry i among the events logged so far, in order.
EventsOf(i) == SelectSeq(hist.events, LAMBDA ev : ev.entry = i)
KindsOf(i) == [k \in 1..Len(EventsOf(i)) |-> EventsOf(i)[k].kind]

\* C28: the entries of a plan are executed in plan order, one at a time:
\* every event of an entry is issued before any event of a later entry, a
\* click issues its replay, then its press, then its release and only then
\* its pause, and a plan given as a single entry is executed as a plan of
\* that one entry.
C28_EntriesRunInOrderOneAtATime ==
  /\ [](\A j, k \in 1..Len(hist.events) :
          j < k => hist.events[j].entry <= hist.events[k].entry)
  /\ [](\A k \in 1..Len(hist.events) : hist.events[k].entry < entryIndex)
  /\ [](pc = "execute" =>
         \A i \in 1..(entryIndex - 1) :
           LET action == actionList(actions)[i] IN
             KindsOf(i) =
               IF action.action = "click"
               THEN IF action.target_bounding_box = NoTarget
                       /\ action.target_coordinates = NoTarget
                    THEN <<"sleep">>
                    ELSE <<"replay", "down", "up", "sleep">>
               ELSE IF action.action = "wait" /\ action.duration_ms > 0
               THEN <<"sleep">>
               ELSE << >>)
  /\ [][pc = "execute" /\ pc' = "execute" /\ entryIndex' # entryIndex
        => entryIndex' = entryIndex + 1 /\ actions' = actions]_vars
  /\ [](pc = "execute" /\ ~actions.isArray =>
         /\ Len(actionList(actions)) = 1
         /\ actionList(actions)[1] = actions.items[1]
         /\ entryIndex <= 2)

\* A plan of a wait and a click on a box, executed to its end: the sleep of
\* entry 1, then the replay, press, release and pause of entry 2.
C28_Witness ==
  /\ pc = "execute"
  /\ entryIndex = 3
  /\ actionList(actions) = <<WaitPositive, ClickBox>>
  /\ hist.events = << Event(1, "sleep"), Event(2, "replay"), Event(2, "down"),
                      Event(2, "up"), Event(2, "sleep") >>


\* C29: the fallback probe tries Verify, Next, Submit, Skip, then the verify
\* affordance, then the submit affordance, one after the other; it stops at
\* the first one it clicks, passes over none that is visible, and returns
\* didInteract = true exactly when it clicked one.
C29_ProbeClicksFirstVisibleOnly ==
  /\ [](Affordances = <<"Verify", "Next", "Submit", "Skip",
                        "#recaptcha-verify-button", ".button-submit">>)
  /\ [][pc = "probe" /\ pc' = "probe" /\ entryIndex' # entryIndex
        => entryIndex' = entryIndex + 1 /\ ~performedAction']_vars
  /\ [][pc = "probe" /\ pc' = "settle"
        => /\ performedAction' <=> entryIndex <= Len(Affordances)
           /\ ~hist.abandoned]_vars


\* An entry that asks for something: a click with a box or a point, or a
\* wait of positive duration.
Actionable(action) ==
  \/ /\ action.action = "click"
     /\ action.target_bounding_box # NoTarget \/ action.target_coordinates # NoTarget
  \/ action.action = "wait" /\ action.duration_ms > 0
\* The plan in execution is at its end and none of its entries was actionable.
ZeroActionableEntries ==
  /\ PlanExhausted
  /\ \A i \in 1..Len(actionList(actions)) : ~Actionable(actionList(actions)[i])

\* C30: on a surface that is not a frame, a plan with zero actionable
\* entries ends with no affordance searched or clicked and didInteract
\* false, and solve fails with the stall failure when the re-check still
\* finds the surface.
C30_NoProbeWithoutEmbeddedContent ==
  /\ [][ZeroActionableEntries /\ ~HasContentFrame(captchaElement) /\ pc' # pc
        => /\ pc' = "settle"
           /\ ~performedAction'
           /\ lastMousePosition' = lastMousePosition
           /\ hist'.pointerEvents = hist.pointerEvents]_vars
  /\ [][(/\ pc = "settle" /\ ~HasContentFrame(captchaElement) /\ ~performedAction
          /\ hist'.present = hist.present + 1)
        => pc' = "done" /\ outcome'.cause = "stall"]_vars
  /\ [](pc = "probe" => HasContentFrame(captchaElement))


Seeds == {DefaultSeed, ConfiguredSeed}
\* The entry about to be executed is a click that names a box or a point.
AtTargetedClick ==
  /\ pc = "execute"
  /\ entryIndex <= Len(actionList(actions))
  /\ actionList(actions)[entryIndex].action = "click"
  /\ \/ actionList(actions)[entryIndex].target_bounding_box # NoTarget
     \/ actionList(actions)[entryIndex].target_coordinates # NoTarget
\* Where the motion-planning call of this step is asked to go.
MotionDestinations ==
  IF AtTargetedClick
  THEN { Point(t.x, t.y) : t \in ClickTargets(actionList(actions)[entryIndex], elementBox) }
  ELSE { MoveTarget(AffordanceBox, rx, ry) : rx \in Draws, ry \in Draws }
\* What a replay from `last` towards `to` can write: a waypoint of a
\* trajectory that starts at `last`, clamped; or nothing.
WrittenFrom(last, to) ==
  {last} \cup { Clamp(v, viewport) : v \in {last, Overshoot, to}, viewport \in Viewports }

C32_PointerStateOutlivesTheCall ==
  /\ [][(pc \in {"idle", "done"}) /\ pc' = "loop"
        => lastMousePosition' = lastMousePosition /\ hist'.later = (pc = "done")]_vars
  /\ [](pc = "done" /\ outcome.kind = "returned"
         => outcome.finalMousePosition = lastMousePosition)
  /\ [][pc' = "done" /\ pc # "done" /\ ~hist'.pointerEvents
        => lastMousePosition' = lastMousePosition]_vars

\* A later call that issued no pointer event returned a position that is
\* not a seed: the one an earlier call left.
C32_Witness ==
  /\ pc = "done"
  /\ hist.later
  /\ ~hist.pointerEvents
  /\ outcome.kind = "returned"
  /\ outcome.finalMousePosition \notin Seeds


\* C33: when the move to waypoint i fails because the page or session is
\* closed, the replay ends at once: waypoint i was the last one issued,
\* Pointer State stays at the last position a move succeeded at, nothing
\* more happens in the replay, and it ends by returning (closed or
\* completed), never by raising.
C33_ClosedPageEndsReplaySilently ==
  /\ [][replay'.state = "closed"
        => /\ replay.state = "running"
           /\ replay'.i = replay.i
           /\ replay'.issued = <<Clamp(replay.vectors[replay.i], replay.viewport)>>
           /\ replay'.written = replay.written
           /\ lastMousePosition' = lastMousePosition]_vars
  /\ [][replay.state # "closed"]_vars
  /\ [](replay.written # << >> => lastMousePosition = replay.written[1])
  /\ [](replay.state \in {"running", "closed", "completed"})
  /\ [](replay.sawClosed <=> replay.state = "closed")

\* The first waypoint was written, the move to the second one met a closed
\* page, and the third was never issued.
C33_Witness ==
  /\ replay.state = "closed"
  /\ Len(replay.vectors) = 3
  /\ replay.i = 2
  /\ replay.written = <<Clamp(replay.vectors[1], replay.viewport)>>
  /\ lastMousePosition = replay.written[1]
  /\ replay.issued # replay.written


\* The moves of a replay in which no page or session is closed.
OpenResults(n) == [1..n -> {"ok", "error"}]
\* The last waypoint whose move succeeded (0 if none did).
LastOk(results) ==
  LET ok == { k \in DOMAIN results : results[k] = "ok" }
  IN IF ok = {} THEN 0 ELSE CHOOSE k \in ok : \A j \in ok : j <= k

\* C34: a move that fails without the page or session being closed does
\* not end the replay: the waypoints after it are still issued, Pointer
\* State ends at the last waypoint whose move succeeded (where it was, if
\* none did), and the click goes on to its press and release wherever the
\* pointer has got to.
C34_OtherMoveFailureIsSwallowed ==
  /\ [](pc = "idle" =>
         \A last \in Seeds, to \in Destinations, viewport \in Viewports :
           \A vectors \in TrajectoriesOf(last, to, 2) :
             \A results \in OpenResults(Len(vectors)) :
               tracePath(last, vectors, results, viewport, 1) =
                 IF LastOk(results) = 0 THEN last
                 ELSE Clamp(vectors[LastOk(results)], viewport))
  /\ [][AtTargetedClick /\ pc' = "execute"
        => \/ /\ entryIndex' = entryIndex + 1
              /\ performedAction'
              /\ hist'.events = hist.events \o
                   << Event(entryIndex, "replay"), Event(entryIndex, "down"),
                      Event(entryIndex, "up"), Event(entryIndex, "sleep") >>
           \/ UNCHANGED << entryIndex, lastMousePosition, hist >>]_vars

\* A click on a box whose replay moved the pointer nowhere (every move
\* failed) was pressed and released all the same.
C34_Witness ==
  /\ pc = "execute"
  /\ ~hist.later
  /\ attempt = 1
  /\ actionList(actions) = <<ClickPoint>>
  /\ entryIndex = 2
  /\ hist.events = ClickEvents(1)
  /\ lastMousePosition = ConfiguredSeed


\* The waypoint the last pass of the replay was about.
PacedWaypoint == replay.i - 1

CaptureDegraded == capture.check = "failed" \/ capture.video = "failed"

\* C36: a movement check that fails (second screenshot, subprocess or its
\* output) and a capture that fails (frames or encoding) do not end the
\* iteration: the decision service is still called, exactly once, with the
\* initial screenshot; the video is what is sent exactly when movement was
\* detected and the capture succeeded.
C36_FailedCheckOrCaptureFallsBackToScreenshot ==
  /\ CaptureDegraded
       => /\ capture.pc \in {"input", "ask", "done"}
          /\ capture.pc # "done" => capture.ended = "pending" /\ capture.sent = << >>
          /\ capture.pc = "done" => capture.sent = << "initialScreenshot" >>
  /\ capture.pc = "done" /\ capture.created # {}
       => /\ Len(capture.sent) = 1
          /\ capture.sent[1] = "video"
               <=> capture.check = "moving" /\ capture.video = "captured"
          /\ capture.sent[1] # "video" => capture.sent[1] = "initialScreenshot"

\* The subprocess found movement, the encoding then failed, and the decision
\* service was called with the initial screenshot.
C36_Witness ==
  /\ capture.pc = "done"
  /\ capture.check = "moving" /\ capture.video = "failed"
  /\ capture.created = {"initialScreenshot", "secondScreenshot", "framesDir"}
  /\ capture.sent = << "initialScreenshot" >>
  /\ capture.ended = "returned"

\* C37: when the iteration has ended, none of the temporary artifacts it
\* created is left.
C37_NoTemporaryArtifactOutlivesTheIteration ==
  capture.pc = "done" => capture.files = {}


\* C38: with CAPTCHA_DEBUG set no solve call ends in a failure of a debug
\* artifact, the session directory included: the call ends as it would
\* without debugging.
C38_DebugFailuresNeverReachTheCaller ==
  pc = "done" => outcome.cause # "debug"


\* The lines of an output that carry both `actions` and `token_usage`, and
\* those in one of the older forms that the parser accepts.
PayloadLines(out) == { i \in DOMAIN out : out[i].kind = "payload" }
LegacyLines(out) ==
  { i \in DOMAIN out :
      \/ out[i].kind = "list"
      \/ out[i].kind = "entry" /\ IsLegacyEntry(out[i].actions.items[1]) }
Lowest(S) == CHOOSE i \in S : \A j \in S : i <= j
Highest(S) == CHOOSE i \in S : \A j \in S : j <= i
\* What the claim says getSolution resolves to on an output (and the empty
\* plan where no line of the output parses).
PlanOf(out) ==
  IF PayloadLines(out) # {}
  THEN LET line == out[Lowest(PayloadLines(out))]
       IN [actions |-> line.actions, token_usage |-> line.token_usage]
  ELSE IF LegacyLines(out) # {}
  THEN LET line == out[Highest(LegacyLines(out))]
       IN [actions |-> ActionArray(line.actions.items), token_usage |-> << >>]
  ELSE NoResponse

\* C39: of an output with a line that carries both `actions` and
\* `token_usage`, the first such line is the plan and the usage, whatever
\* log lines and older-form lines come before or after it; of an output in
\* which only older-form lines parse, the last of them is the plan and the
\* usage is empty. The iteration then works on that plan and usage.
C39_FirstPayloadLineWinsElseLastLegacyLine ==
  /\ [](pc = "idle" =>
         \A out \in SeqsUpTo(Lines, MaxLines + 1) :
           PayloadLines(out) \cup LegacyLines(out) # {}
             => getSolution(Run(TRUE, TRUE, out)) = Resolved(PlanOf(out)))
  /\ [][pc = "decide" /\ pc' = "execute"
        => \E out \in Stdouts :
             /\ ~TrimIsEmpty(out)
             /\ actions' = PlanOf(out).actions
             /\ allTokenUsage' = PlanOf(out).token_usage]_vars

\* An iteration working on the plan and the usage of a payload line.
C39_Witness ==
  /\ pc = "execute"
  /\ actions = ActionArray(<<WaitZero, OtherAction>>)
  /\ allTokenUsage = <<UsageB, UsageC>>
  /\ hist.dsUsage = <<UsageB, UsageC>>


\* No usage is serialized into the message.
WithoutUsage(message) == \A i \in DOMAIN message : message[i].t # "json"

====
